---- MODULE Spec2Model ----
(***************************************************************************)
(* State-machine model of MKronoSphere's TemporalResonator                 *)
(* (src/src/modules/temporalResonator.ts) and PulseBroadcaster             *)
(* (src/unnamed/part_009).                                                 *)
(*                                                                         *)
(* JavaScript runs one task at a time and an async function runs without   *)
(* interruption from its call to its first await and from one await to the *)
(* next.  Every action below is one such uninterrupted segment.            *)
(***************************************************************************)
EXTENDS Integers, Sequences, FiniteSets, Bags, TLC

\* ------------------------------------------------------------------ bounds
\* Total number of syncTarget invocations in one behaviour.
MaxCalls == 2
\* config.maxConcurrentSyncs is drawn from 0..MaxCeiling.
MaxCeiling == 2
\* config.maxRetries is drawn from 0..MaxRetriesBound.
MaxRetriesBound == 2

VARIABLES
    targets,          \* Map<string, SyncTarget>, in insertion order
    sacredTimeZones,  \* Map<string, SacredTimeZone>, in insertion order
    config,           \* TemporalResonatorConfig (the fields the engine reads)
    syncStrategies,   \* Map<string, SyncStrategy>, in insertion order
    activeSyncs,      \* Set<string> of sync ids
    cronJobs,         \* Map<string, ScheduledTask>: target id -> task
    cronTasks,        \* every task cron.schedule has created, in creation order
    calls,            \* every syncTarget invocation made so far, in call order
    emitted,          \* the notifications emitted since Init other than
                      \* 'sync-completed' (see notified below), in order
    allOp,            \* the syncAllTargets invocation
    sacredOp,         \* the triggerSacredTimeSync invocation
    addCalls,         \* every addTarget call made since Init, with its outcome
    channels,           \* PulseBroadcaster: Map<string, BroadcastChannel>
    broadcasterConfig,  \* PulseBroadcaster: config (the fields it reads)
    activeBroadcasts,   \* PulseBroadcaster: Set<string> of broadcast ids
    broadcasts,         \* every broadcastSignal invocation, in call order
    pulseEmitted,       \* the notifications the broadcaster has emitted
    eventCallbacks,     \* BaseIntegration: the callbacks onEvent has pushed
    emitCalls,          \* every emitEvent call made so far, in call order
    isInitialized,      \* BaseIntegration.isInitialized
    isRunning,          \* BaseIntegration.isRunning
    lifecycle,          \* every initialize, start, stop and sendEvent call
                        \* made so far, in call order
    eventSource,        \* PrimalGenesisIntegration.eventSource: 0 for null,
                        \* else the index in streams of the EventSource
    streams,            \* every EventSource created so far, in creation order
    connects,           \* every connectToEventStream invocation that reached
                        \* `await this.auth.getAccessToken()`
    reconnectAttempts,  \* PrimalGenesisIntegration.reconnectAttempts
    reconnectTimers,    \* reconnection timers set and not yet fired
    registered,         \* MKronoSphere: number of active targets registered
    resonatorSyncs,     \* MKronoSphere: the syncTarget calls holding an id of
                        \* the resonator's activeSyncs, as a bag of
                        \* syncAllTargets invocations (see Run)
    pulseBroadcasts,    \* MKronoSphere: size of the broadcaster's activeBroadcasts
    loggedEvents        \* MKronoSphere: events logged from outside so far

\* the state of the PulseBroadcaster
broadcaster == <<channels, broadcasterConfig, activeBroadcasts, broadcasts,
                 pulseEmitted>>

\* the state of a BaseIntegration
integration == <<eventCallbacks, emitCalls, isInitialized, isRunning, lifecycle>>

\* the state a PrimalGenesisIntegration adds to its BaseIntegration
genesis == <<eventSource, streams, connects, reconnectAttempts, reconnectTimers>>

\* the state of the MKronoSphere orchestrator's event coordination
orchestrator == <<registered, resonatorSyncs, pulseBroadcasts, loggedEvents>>

vars == <<targets, sacredTimeZones, config, syncStrategies, activeSyncs,
          cronJobs, cronTasks, calls, emitted, allOp, sacredOp, addCalls,
          broadcaster, integration, genesis, orchestrator>>

\* ------------------------------------------------------- strings and lists
\* String.prototype.includes: sub occurs in s as a contiguous run.
\* Strings that are searched are modelled as sequences of characters.
Includes(s, sub) ==
    \E i \in 0..(Len(s) - Len(sub)) :
        \A j \in 1..Len(sub) : s[i + j] = sub[j]

\* String.prototype.startsWith
StartsWith(s, pre) ==
    /\ Len(pre) <= Len(s)
    /\ \A j \in 1..Len(pre) : s[j] = pre[j]

\* Map.prototype.has / get / set on a map kept as the sequence of its
\* entries in insertion order; every entry carries its key in the field id.
MapHas(m, k) == \E i \in 1..Len(m) : m[i].id = k

MapGet(m, k) == m[CHOOSE i \in 1..Len(m) : m[i].id = k]

\* set() of an existing key replaces the value and keeps the key's position
MapSet(m, v) ==
    IF MapHas(m, v.id)
    THEN [i \in 1..Len(m) |-> IF m[i].id = v.id THEN v ELSE m[i]]
    ELSE Append(m, v)

\* the elements of a list
Range(seq) == {seq[i] : i \in 1..Len(seq)}

\* ------------------------------------------------------------------- data
sCustom   == <<"c", "u", "s", "t", "o", "m">>
sCosmic   == <<"c", "o", "s", "m", "i", "c">>
sFullMoon == <<"f", "u", "l", "l", "-", "m", "o", "o", "n">>

\* SyncTarget: id, type, connection.method, schedule.cron ("none" when the
\* target has no cron expression), schedule.conditions, active.
TargetFile ==
    [id |-> "T1", type |-> "system", method |-> "file", active |-> TRUE,
     cron |-> "valid", hasConditions |-> FALSE, conditions |-> <<>>]
TargetInactive ==
    [id |-> "T2", type |-> "system", method |-> "http", active |-> FALSE,
     cron |-> "none", hasConditions |-> FALSE, conditions |-> <<>>]
TargetCustom ==
    [id |-> "T3", type |-> "custom", method |-> "custom", active |-> TRUE,
     cron |-> "none", hasConditions |-> TRUE, conditions |-> <<>>]
TargetHttp ==
    [id |-> "T4", type |-> "system", method |-> "http", active |-> TRUE,
     cron |-> "none", hasConditions |-> TRUE,
     conditions |-> <<sFullMoon, <<"o", "n", "-", "z", "1">>>>]

\* The ids callers pass to syncTarget directly; "TX" is never registered.
TargetIds == {"T1", "T2", "T3", "TX"}

\* The target lists registered before the engine is put to work.
Registries == { <<TargetFile, TargetHttp, TargetInactive, TargetCustom>>,
                <<TargetFile, TargetHttp>> }

\* SacredTimeZone: the fields the engine reads
ZoneCustom ==
    [id |-> <<"z", "1">>, name |-> "Z1", type |-> sCustom, tags |-> {},
     active |-> TRUE]
ZoneFullMoon ==
    [id |-> <<"z", "2">>, name |-> "Z2", type |-> sFullMoon,
     tags |-> {"cosmic", "lunar", "sacred"}, active |-> TRUE]
ZoneOff ==
    [id |-> <<"z", "3">>, name |-> "Z3", type |-> sCustom, tags |-> {},
     active |-> FALSE]
ZoneIds == {<<"z", "1">>, <<"z", "2">>, <<"z", "3">>, <<"z", "9">>}

\* SyncStrategy: id, priority and canHandle, the latter given as the set of
\* <<type, connection.method>> pairs it accepts.
BUILT_IN_SYNC_STRATEGIES ==
    << [id |-> "http-webhook", priority |-> 1, handles |-> {<<"system", "http">>}],
       [id |-> "file-system",  priority |-> 2, handles |-> {<<"system", "file">>}],
       [id |-> "websocket",    priority |-> 3, handles |-> {<<"system", "websocket">>}] >>

canHandle(strategy, target) == <<target.type, target.method>> \in strategy.handles

\* The value findBestStrategy returns when applicableStrategies is empty.
Undefined == [id |-> "undefined", priority |-> 0, handles |-> {}]

\* ------------------------------------------------------ strategy registry
\* registerSyncStrategy: this.syncStrategies.set(strategy.id, strategy)
registerSyncStrategy(registry, strategy) == MapSet(registry, strategy)

\* The place Array.prototype.sort (stable) gives x in an already sorted list
\* under the comparator (a, b) => b.priority - a.priority: behind every
\* element whose priority is not smaller.
InsertBeforeEqual(sorted, x) ==
    LET n == Cardinality({i \in 1..Len(sorted) : sorted[i].priority > x.priority})
    IN  SubSeq(sorted, 1, n) \o <<x>> \o SubSeq(sorted, n + 1, Len(sorted))

InsertByPriority(sorted, x) ==
    LET n == Cardinality({i \in 1..Len(sorted) : sorted[i].priority >= x.priority})
    IN  SubSeq(sorted, 1, n) \o <<x>> \o SubSeq(sorted, n + 1, Len(sorted))

RECURSIVE SortByPriority(_)
SortByPriority(s) ==
    IF s = <<>> THEN <<>>
    ELSE InsertByPriority(SortByPriority(SubSeq(s, 1, Len(s) - 1)), s[Len(s)])

FirstApplicable(registry, target) ==
    LET applicableStrategies == SelectSeq(registry, LAMBDA st : canHandle(st, target))
    IN  IF applicableStrategies = <<>> THEN Undefined ELSE applicableStrategies[1]

findBestStrategy(registry, target) ==
    LET applicableStrategies ==
            SortByPriority(SelectSeq(registry, LAMBDA st : canHandle(st, target)))
    IN  IF applicableStrategies = <<>> THEN Undefined ELSE applicableStrategies[1]

\* ----------------------------------------------------------- syncTarget
\* A syncTarget invocation.  pc is where the invocation stands:
\*   "race"     awaiting Promise.race([syncPromise, timeoutPromise])
\*   "sleep"    in retrySync, awaiting the back-off timer of attempt `attempt`
\*   "retry"    in retrySync, awaiting strategy.execute of attempt `attempt`
\*   "returned" the promise is fulfilled with `result`
\*   "thrown"   the promise is rejected with `error`
\* execs counts the calls of strategy.execute, first is how the race of the
\* first execution ended ("ok", "fail", "throw", "timeout"; "none" before),
\* okAt is the value of execs at the first execution that returned success,
\* notified lists the results this invocation has emitted with
\* 'sync-completed'.
NoResult == [success |-> FALSE, error |-> "", attempt |-> 0]

NewCall(targetId) ==
    [target |-> targetId, pc |-> "race", attempt |-> 0,
     execs |-> 0, first |-> "none", okAt |-> 0, notified |-> <<>>,
     strategy |-> "undefined",
     result |-> NoResult, error |-> ""]

Returned(call, result) == [call EXCEPT !.pc = "returned", !.result = result]

Thrown(call, error) == [call EXCEPT !.pc = "thrown", !.error = error]

FailedResult(error) == [success |-> FALSE, error |-> error, attempt |-> 0]

\* the result a strategy's execute produces on its n-th execution
StrategyResult(success, n) ==
    [success |-> success, error |-> IF success THEN "" ELSE "strategy failure",
     attempt |-> n]

\* `throw new Error('Target not found: ...')`
NotFoundAsResult(call) == Returned(call, FailedResult("Target not found"))

NotFound(call) == Thrown(call, "Target not found")

\* the guard `!target.active`
IsInactiveNever(target) == FALSE

IsInactive(target) == ~target.active

\* the guard `this.activeSyncs.size >= this.config.maxConcurrentSyncs`
AtLimitOffByOne(act, cfg) == Cardinality(act) > cfg.maxConcurrentSyncs

AtLimitNever(act, cfg) == FALSE

AtLimit(act, cfg) == Cardinality(act) >= cfg.maxConcurrentSyncs

\* `finally { this.activeSyncs.delete(syncId) }`
ReleaseNothing(act, syncId) == act

Release(act, syncId) == act \ {syncId}

\* The segment of syncTarget from its call to its first await, applied to the
\* invocation list cs and the in-flight set act.  The sync id (a fresh uuid)
\* is the invocation's position in cs.
SyncTargetEnter(cs, act, targetId) ==
    LET syncId == Len(cs) + 1
        call   == NewCall(targetId)
    IN
    IF ~MapHas(targets, targetId)
    THEN [calls |-> Append(cs, NotFound(call)), activeSyncs |-> act]
    ELSE
    LET target == MapGet(targets, targetId) IN
    IF IsInactive(target)
    THEN [calls |-> Append(cs, Returned(call, FailedResult("Target is not active"))),
          activeSyncs |-> act]
    ELSE IF AtLimit(act, config)
    THEN [calls |-> Append(cs, Returned(call,
                        FailedResult("Maximum concurrent syncs reached"))),
          activeSyncs |-> act]
    ELSE
    LET acquired == act \cup {syncId}
        strategy == findBestStrategy(syncStrategies, target)
    IN
    IF strategy = Undefined
    THEN [calls |-> Append(cs, Thrown(call, "No suitable sync strategy found")),
          activeSyncs |-> Release(acquired, syncId)]
    ELSE [calls |-> Append(cs, [call EXCEPT !.strategy = strategy.id, !.execs = 1]),
          activeSyncs |-> acquired]

\* The retry loop of retrySync at the head of iteration `attempt`:
\* `for (let attempt = 1; attempt <= this.config.maxRetries; attempt++)`,
\* and the result built behind the loop.
RetryLoop(call, attempt) ==
    IF attempt <= config.maxRetries
    THEN [call EXCEPT !.pc = "sleep", !.attempt = attempt]
    ELSE Returned(call, FailedResult("Sync failed after retry attempts"))

\* `if (!result.success && this.config.enableRetries)`
RetriesWanted(result, cfg) == ~result.success /\ cfg.enableRetries

\* How syncTarget goes on when Promise.race has settled with `outcome`.
AfterRace(call, outcome) ==
    LET c1 == [call EXCEPT !.first = outcome] IN
    CASE outcome = "timeout" -> Thrown(c1, "Sync timeout")
      [] outcome = "throw"   -> Thrown(c1, "strategy error")
      [] OTHER ->
            LET result == StrategyResult(outcome = "ok", 1) IN
            IF RetriesWanted(result, config)
            THEN RetryLoop(c1, 1)
            ELSE Returned([c1 EXCEPT !.notified = Append(@, result),
                                     !.okAt = IF result.success THEN 1 ELSE 0],
                          result)

\* How retrySync goes on when the awaited execute has settled with `outcome`:
\* `if (result.success) return result`, else the next iteration.
AfterRetryNeverReturns(call, outcome) ==
    RetryLoop([call EXCEPT !.okAt = IF outcome = "ok" /\ @ = 0 THEN call.execs ELSE @],
              call.attempt + 1)

AfterRetry(call, outcome) ==
    IF outcome = "ok"
    THEN Returned([call EXCEPT !.okAt = call.execs], StrategyResult(TRUE, call.execs))
    ELSE RetryLoop(call, call.attempt + 1)

Settled(call) == call.pc \in {"returned", "thrown"}

\* the in-flight set once invocation c has moved on to `call`: the finally
\* block runs when syncTarget returns or throws
AfterStep(act, c, call) == IF Settled(call) THEN Release(act, c) ELSE act

\* The target registry once invocation `call` has moved on: syncTarget reads
\* the target with this.targets.get and writes neither the Map nor a field of
\* the target, whatever the outcome.
RegistryDeactivatesFailed(ts, call) ==
    IF Settled(call) /\ (call.pc = "thrown" \/ ~call.result.success)
       /\ MapHas(ts, call.target)
    THEN MapSet(ts, [MapGet(ts, call.target) EXCEPT !.active = FALSE])
    ELSE ts

RegistryAfter(ts, call) == ts

\* ------------------------------------------------------------- scheduler
\* cron.schedule(expression, ...) of node-cron validates the expression when
\* it is called and throws when it cannot be parsed.
CronParses(expression) == expression # "invalid"

\* Map.prototype.delete
MapDelete(m, k) == SelectSeq(m, LAMBDA e : e.id # k)

\* setupTargetSchedule: cron.schedule creates a running task whose callback
\* calls syncTarget(target.id); this.cronJobs.set(target.id, cronJob).  st is
\* the record of the registry and the scheduler's state; threw tells that the
\* call has thrown.
setupTargetScheduleCaught(st, target) ==
    IF target.cron = "none" \/ ~CronParses(target.cron) THEN st
    ELSE [st EXCEPT
            !.cronTasks = Append(@, [target |-> target.id, running |-> TRUE]),
            !.cronJobs  = MapSet(@, [id |-> target.id, task |-> Len(st.cronTasks) + 1])]

setupTargetSchedule(st, target) ==
    IF target.cron = "none" THEN st
    ELSE IF ~CronParses(target.cron) THEN [st EXCEPT !.threw = TRUE]
    ELSE [st EXCEPT
            !.cronTasks = Append(@, [target |-> target.id, running |-> TRUE]),
            !.cronJobs  = MapSet(@, [id |-> target.id, task |-> Len(st.cronTasks) + 1])]

\* addTarget: this.targets.set(target.id, target), then the schedule
addTarget(st, target) ==
    setupTargetSchedule([st EXCEPT !.targets = MapSet(@, target)], target)

\* removeTarget: the target is deleted; the task cronJobs holds for the id
\* is stopped and the entry deleted
removeTarget(st, targetId) ==
    IF ~MapHas(st.targets, targetId) THEN st
    ELSE LET removed == [st EXCEPT !.targets = MapDelete(@, targetId)] IN
         IF ~MapHas(st.cronJobs, targetId) THEN removed
         ELSE [removed EXCEPT
                 !.cronTasks = [@ EXCEPT ![MapGet(st.cronJobs, targetId).task].running = FALSE],
                 !.cronJobs  = MapDelete(@, targetId)]

RECURSIVE AddTargets(_, _)
AddTargets(st, list) ==
    IF list = <<>> THEN st
    ELSE AddTargets(addTarget(st, Head(list)), Tail(list))

\* ------------------------------------------------------ batch operations
\* chunkArray(array, size) for size >= 1 (with size = 0 and a non-empty array
\* the loop `i += size` never ends, see SyncAllTargets)
RECURSIVE chunkArrayOversized(_, _)
chunkArrayOversized(array, size) ==
    IF array = <<>> THEN <<>>
    ELSE IF Len(array) <= size + 1 THEN <<array>>
    ELSE <<SubSeq(array, 1, size + 1)>>
            \o chunkArrayOversized(SubSeq(array, size + 2, Len(array)), size)

\* The loop of chunkArray, `for (let i = 0; i < array.length; i += size)`,
\* comes to an end when the array is empty or every round advances i; with
\* size 0 and a non-empty array i stays 0 and the loop pushes empty chunks
\* for ever.
ChunkLoopEnds(array, size) == Len(array) = 0 \/ size >= 1

RECURSIVE chunkArray(_, _)
chunkArray(array, size) ==
    IF array = <<>> THEN <<>>
    ELSE IF Len(array) <= size THEN <<array>>
    ELSE <<SubSeq(array, 1, size)>> \o chunkArray(SubSeq(array, size + 1, Len(array)), size)

\* chunk.map(target => this.syncTarget(target.id, event)): the invocations of
\* a chunk are entered one after the other without interruption
RECURSIVE IssueAll(_, _, _)
IssueAll(cs, act, ids) ==
    IF ids = <<>> THEN [calls |-> cs, activeSyncs |-> act]
    ELSE LET r == SyncTargetEnter(cs, act, Head(ids))
         IN  IssueAll(r.calls, r.activeSyncs, Tail(ids))

Ids(list) == [i \in 1..Len(list) |-> list[i].id]

\* targets.values().filter(target => target.active)
ActiveTargets == SelectSeq(targets, LAMBDA t : t.active)

shouldSyncForSacredTime(target, sacredTimeZone) ==
    IF target.hasConditions
    THEN \E i \in 1..Len(target.conditions) :
            \/ Includes(target.conditions[i], sacredTimeZone.id)
            \/ Includes(target.conditions[i], sacredTimeZone.type)
    ELSE \/ StartsWith(sacredTimeZone.type, sCosmic)
         \/ sacredTimeZone.type = sCustom

RelevantTargets(sacredTimeZone) ==
    SelectSeq(targets, LAMBDA t : t.active /\ shouldSyncForSacredTime(t, sacredTimeZone))

\* syncAllTargets: pc is "idle" (not called), "await" (awaiting Promise.all of
\* chunk k, whose invocations are `issued`), "returned", "thrown" or
\* "diverged" (inside the endless loop of chunkArray); results holds the
\* invocations whose results have been pushed.
IdleAll == [pc |-> "idle", chunks |-> <<>>, k |-> 0, issued |-> <<>>, results |-> <<>>]

\* triggerSacredTimeSync: pc is "idle", "await" (awaiting invocation cur),
\* "returned" or "thrown"; zone is the marker's name, todo holds the relevant
\* targets not yet synced.
IdleSacred == [pc |-> "idle", zone |-> "", todo |-> <<>>, cur |-> 0, results |-> <<>>]

\* `await Promise.all(chunkPromises)` is fulfilled when every invocation of
\* the chunk has returned.
ChunkNotAwaited(op, cs) == TRUE

ChunkFulfilled(op, cs) ==
    \A i \in 1..Len(op.issued) : cs[op.issued[i]].pc = "returned"

\* `await this.syncTarget(target.id, event)` in triggerSacredTimeSync goes on
\* when the awaited invocation has settled.
SacredNotAwaited(op, cs) == TRUE

SacredAwaited(op, cs) == Settled(cs[op.cur])

\* While chunkArray loops, no other task gets to run.
EventLoopFree == allOp.pc # "diverged"

CallsLeft == MaxCalls - Len(calls)

\* ------------------------------------------------------------------ Init
\* The configurations the engine is run with.  maxRetries is read only when
\* enableRetries is set, so one value stands for all when it is not.
Configs ==
    { cfg \in [maxConcurrentSyncs : 0..MaxCeiling, enableRetries : BOOLEAN,
               maxRetries : 0..MaxRetriesBound] :
        ~cfg.enableRetries => cfg.maxRetries = 0 }

\* ------------------------------------------------- PulseBroadcaster data
\* BroadcastChannel: id, priority and the value isAvailable() returns.  The
\* 'sound' channel is available on every platform but win32.
BUILT_IN_BROADCAST_CHANNELS(platform) ==
    << [id |-> "console",   priority |-> 1, available |-> TRUE],
       [id |-> "file",      priority |-> 2, available |-> TRUE],
       [id |-> "websocket", priority |-> 3, available |-> FALSE],
       [id |-> "api",       priority |-> 4, available |-> TRUE],
       [id |-> "sound",     priority |-> 5, available |-> platform # "win32"] >>

\* PulseBroadcasterConfig: maxConcurrentBroadcasts and filters.  hasFilters
\* is FALSE when config.filters is undefined; minPriority = 0 stands for an
\* undefined minPriority as well (both are falsy); requiredTags = <<>> stands
\* for an undefined list as well (both skip the check), and so does
\* excludedTypes = {}.
DEFAULT_PULSE_BROADCASTER_CONFIG ==
    [maxConcurrentBroadcasts |-> 10, hasFilters |-> TRUE, minPriority |-> 1,
     requiredTags |-> <<>>, excludedTypes |-> {}]

\* registerChannel: this.channels.set(channel.id, channel)
registerChannel(registry, channel) == MapSet(registry, channel)

RECURSIVE RegisterChannels(_, _)
RegisterChannels(registry, list) ==
    IF list = <<>> THEN registry
    ELSE RegisterChannels(registerChannel(registry, Head(list)), Tail(list))

\* The broadcaster as its constructor leaves it under configuration cfg.
Constructed(cfg, platform) ==
    /\ channels = RegisterChannels(<<>>, BUILT_IN_BROADCAST_CHANNELS(platform))
    /\ broadcasterConfig = cfg
    /\ activeBroadcasts = {}
    /\ broadcasts = <<>>
    /\ pulseEmitted = <<>>

\* ------------------------------------------------- BaseIntegration data
\* A callback handed to onEvent: its identity and whether calling it throws.
\* onEvent: this.eventCallbacks.push(callback)
onEvent(callbacks, callback) == Append(callbacks, callback)

\* The record of an emitEvent call: the callbacks registered when it was
\* made, the callbacks it has called and the callbacks whose exception it
\* has passed to logger.error, in order; threw tells that emitEvent itself
\* has thrown.
NewEmit(callbacks) ==
    [registered |-> callbacks, called |-> <<>>, logged |-> <<>>, threw |-> FALSE]

\* emitEvent without the try/catch around callback(event)
RECURSIVE EmitLoopUncaught(_, _, _)
EmitLoopUncaught(callbacks, i, run) ==
    IF i > Len(callbacks) THEN run
    ELSE LET called == [run EXCEPT !.called = Append(@, callbacks[i].id)] IN
         IF callbacks[i].throws
         THEN [called EXCEPT !.threw = TRUE]
         ELSE EmitLoopUncaught(callbacks, i + 1, called)

emitEventUncaught(callbacks) == EmitLoopUncaught(callbacks, 1, NewEmit(callbacks))

\* emitEvent: `for (const callback of this.eventCallbacks)` from position i
\* on, with `try { callback(event) } catch (error) { this.logger.error(...) }`
RECURSIVE EmitLoop(_, _, _)
EmitLoop(callbacks, i, run) ==
    IF i > Len(callbacks) THEN run
    ELSE LET called == [run EXCEPT !.called = Append(@, callbacks[i].id)] IN
         IF callbacks[i].throws
         THEN EmitLoop(callbacks, i + 1,
                       [called EXCEPT !.logged = Append(@, callbacks[i].id)])
         ELSE EmitLoop(callbacks, i + 1, called)

emitEvent(callbacks) == EmitLoop(callbacks, 1, NewEmit(callbacks))

\* The record of a call of a lifecycle method: op is the method, pc is
\* "await" while its hook (setup, onStart, onStop, onSendEvent) is awaited,
\* "returned" or "thrown" afterwards; hooked tells that the call has invoked
\* its hook.
LifecycleCall(op, pc, hooked) == [op |-> op, pc |-> pc, hooked |-> hooked]

\* The integration's flags and the call record at the first await of a
\* lifecycle method, or at its early return or throw.  st holds the flags.
\* initialize: `if (this.isInitialized) { warn; return }`, then
\* `await this.setup()`
initializeEnter(st) ==
    IF st.isInitialized THEN LifecycleCall("initialize", "returned", FALSE)
    ELSE LifecycleCall("initialize", "await", TRUE)

\* start without the test of isInitialized
startEnterUnguarded(st) ==
    IF st.isRunning THEN LifecycleCall("start", "returned", FALSE)
    ELSE LifecycleCall("start", "await", TRUE)

\* start: `if (!this.isInitialized) throw`, `if (this.isRunning) { warn;
\* return }`, then `await this.onStart()`
startEnter(st) ==
    IF ~st.isInitialized THEN LifecycleCall("start", "thrown", FALSE)
    ELSE IF st.isRunning THEN LifecycleCall("start", "returned", FALSE)
    ELSE LifecycleCall("start", "await", TRUE)

\* stop: `if (!this.isRunning) { warn; return }`, then `await this.onStop()`
stopEnter(st) ==
    IF ~st.isRunning THEN LifecycleCall("stop", "returned", FALSE)
    ELSE LifecycleCall("stop", "await", TRUE)

\* sendEvent: `if (!this.isRunning) throw`, then `await this.onSendEvent(event)`
sendEventEnter(st) ==
    IF ~st.isRunning THEN LifecycleCall("sendEvent", "thrown", FALSE)
    ELSE LifecycleCall("sendEvent", "await", TRUE)

\* The flags once the hook of a call of `op` has settled: behind the await,
\* initialize sets isInitialized, start sets isRunning and stop clears it;
\* when the hook has thrown the catch block logs and rethrows and no flag
\* is written.
AfterHook(st, op, outcome) ==
    IF outcome = "throw" THEN st
    ELSE CASE op = "initialize" -> [st EXCEPT !.isInitialized = TRUE]
           [] op = "start"      -> [st EXCEPT !.isRunning = TRUE]
           [] op = "stop"       -> [st EXCEPT !.isRunning = FALSE]
           [] OTHER             -> st

\* ------------------------------------------- PrimalGenesisIntegration state
\* maxReconnectAttempts
maxReconnectAttempts == 5

\* A PrimalGenesisIntegration as its field initialisers leave it.
GenesisConstructed ==
    /\ eventSource = 0
    /\ streams = <<>>
    /\ connects = <<>>
    /\ reconnectAttempts = 0
    /\ reconnectTimers = 0

\* --------------------------------------------------- MKronoSphere state
\* The orchestrator builds its TemporalResonator and PulseBroadcaster without
\* overriding these defaults.
OrchestratorSyncCeiling == 5
OrchestratorMaxRetries == 3
OrchestratorBroadcastCeiling == 10

\* The positions of a syncTarget call that holds an id: 0 while it awaits
\* the race, a >= 1 while it awaits attempt a of retrySync.
Positions == 0..OrchestratorMaxRetries

\* The pending syncTarget calls of one syncAllTargets invocation: at[a] of
\* them are in position a; awaited tells that the invocation still awaits
\* them (its Promise.all has not rejected).
Run(awaited, at) == [awaited |-> awaited, at |-> at]

\* The orchestrator once initialize has registered the default target
\* 'console-output' and nothing is in flight.
OrchestratorConstructed ==
    /\ registered = 1
    /\ resonatorSyncs = EmptyBag
    /\ pulseBroadcasts = 0
    /\ loggedEvents = 0

\* A BaseIntegration as its constructor leaves it.
IntegrationConstructed ==
    /\ eventCallbacks = <<>>
    /\ emitCalls = <<>>
    /\ isInitialized = FALSE
    /\ isRunning = FALSE
    /\ lifecycle = <<>>

\* The engine as its constructor leaves it with the targets of a registry
\* added.
ResonatorInit ==
    /\ \E registry \in Registries :
         LET st == AddTargets([targets |-> <<>>, cronJobs |-> <<>>, cronTasks |-> <<>>,
                               threw |-> FALSE], registry)
         IN  /\ targets = st.targets
             /\ cronJobs = st.cronJobs
             /\ cronTasks = st.cronTasks
    /\ sacredTimeZones = <<ZoneCustom, ZoneFullMoon, ZoneOff>>
    /\ config \in Configs
    /\ syncStrategies =
         registerSyncStrategy(registerSyncStrategy(registerSyncStrategy(<<>>,
             BUILT_IN_SYNC_STRATEGIES[1]), BUILT_IN_SYNC_STRATEGIES[2]),
             BUILT_IN_SYNC_STRATEGIES[3])
    /\ activeSyncs = {}
    /\ calls = <<>>
    /\ emitted = <<>>
    /\ allOp = IdleAll
    /\ sacredOp = IdleSacred
    /\ addCalls = <<>>

Init ==
    /\ ResonatorInit
    /\ IntegrationConstructed
    /\ GenesisConstructed
    /\ OrchestratorConstructed
    /\ Constructed(DEFAULT_PULSE_BROADCASTER_CONFIG, "linux")

\* --------------------------------------------------------------- actions
\* A caller calls syncTarget(targetId).
SyncTarget(targetId) ==
    /\ EventLoopFree
    /\ CallsLeft >= 1
    /\ LET r == SyncTargetEnter(calls, activeSyncs, targetId)
       IN  /\ calls' = r.calls
           /\ activeSyncs' = r.activeSyncs
    /\ UNCHANGED <<addCalls, broadcaster, integration, genesis, orchestrator>>
    /\ UNCHANGED <<targets, sacredTimeZones, config, syncStrategies, cronJobs,
                   cronTasks, emitted, allOp, sacredOp>>

\* A running cron task fires: its callback calls syncTarget(target.id).
CronFire(task) ==
    /\ EventLoopFree
    /\ CallsLeft >= 1
    /\ cronTasks[task].running
    /\ LET r == SyncTargetEnter(calls, activeSyncs, cronTasks[task].target)
       IN  /\ calls' = r.calls
           /\ activeSyncs' = r.activeSyncs
    /\ UNCHANGED <<addCalls, broadcaster, integration, genesis, orchestrator>>
    /\ UNCHANGED <<targets, sacredTimeZones, config, syncStrategies, cronJobs,
                   cronTasks, emitted, allOp, sacredOp>>

\* Promise.race([syncPromise, timeoutPromise]) of invocation c settles:
\* execute returned success ("ok") or failure ("fail"), execute threw
\* ("throw"), or the timer rejected first ("timeout").
RaceSettles(c, outcome) ==
    /\ EventLoopFree
    /\ calls[c].pc = "race"
    /\ LET call == AfterRace(calls[c], outcome)
       IN  /\ calls' = [calls EXCEPT ![c] = call]
           /\ activeSyncs' = AfterStep(activeSyncs, c, call)
           /\ targets' = RegistryAfter(targets, call)
    /\ UNCHANGED <<addCalls, broadcaster, integration, genesis, orchestrator>>
    /\ UNCHANGED <<sacredTimeZones, config, syncStrategies, cronJobs,
                   cronTasks, emitted, allOp, sacredOp>>

\* The back-off timer of a retry attempt fires: strategy.execute is called.
RetryExecutes(c) ==
    /\ EventLoopFree
    /\ calls[c].pc = "sleep"
    /\ calls' = [calls EXCEPT ![c].pc = "retry", ![c].execs = @ + 1]
    /\ UNCHANGED <<addCalls, broadcaster, integration, genesis, orchestrator>>
    /\ UNCHANGED <<targets, sacredTimeZones, config, syncStrategies, activeSyncs,
                   cronJobs, cronTasks, emitted, allOp, sacredOp>>

\* The execute awaited in retrySync settles ("ok", "fail" or "throw").
RetrySettles(c, outcome) ==
    /\ EventLoopFree
    /\ calls[c].pc = "retry"
    /\ LET call == AfterRetry(calls[c], outcome)
       IN  /\ calls' = [calls EXCEPT ![c] = call]
           /\ activeSyncs' = AfterStep(activeSyncs, c, call)
           /\ targets' = RegistryAfter(targets, call)
    /\ UNCHANGED <<addCalls, broadcaster, integration, genesis, orchestrator>>
    /\ UNCHANGED <<sacredTimeZones, config, syncStrategies, cronJobs,
                   cronTasks, emitted, allOp, sacredOp>>

\* syncAllTargets is called: the active targets are chunked and the
\* invocations of the first chunk are issued.
IssueChunk(op, k) ==
    LET r == IssueAll(calls, activeSyncs, op.chunks[k])
    IN  /\ calls' = r.calls
        /\ activeSyncs' = r.activeSyncs
        /\ allOp' = [op EXCEPT !.pc = "await", !.k = k,
                        !.issued = [i \in 1..Len(op.chunks[k]) |-> Len(calls) + i]]

SyncAllTargets ==
    /\ EventLoopFree
    /\ allOp.pc = "idle"
    /\ CallsLeft >= Len(ActiveTargets)
    /\ LET activeTargets == Ids(ActiveTargets)
           size == config.maxConcurrentSyncs
       IN  IF ~ChunkLoopEnds(activeTargets, size)
           THEN /\ allOp' = [allOp EXCEPT !.pc = "diverged"]
                /\ UNCHANGED <<calls, activeSyncs>>
           ELSE IF activeTargets = <<>>
           THEN /\ allOp' = [allOp EXCEPT !.pc = "returned"]
                /\ UNCHANGED <<calls, activeSyncs>>
           ELSE IssueChunk([allOp EXCEPT !.chunks = chunkArray(activeTargets, size)], 1)
    /\ UNCHANGED <<addCalls, broadcaster, integration, genesis, orchestrator>>
    /\ UNCHANGED <<targets, sacredTimeZones, config, syncStrategies, cronJobs,
                   cronTasks, emitted, sacredOp>>

\* Promise.all of the current chunk is fulfilled: its results are pushed and
\* the next chunk is issued, or syncAllTargets returns.
SyncAllChunkSettles ==
    /\ EventLoopFree
    /\ allOp.pc = "await"
    /\ ChunkFulfilled(allOp, calls)
    /\ LET op == [allOp EXCEPT !.results = @ \o allOp.issued]
       IN  IF allOp.k < Len(allOp.chunks)
           THEN IssueChunk(op, allOp.k + 1)
           ELSE /\ allOp' = [op EXCEPT !.pc = "returned"]
                /\ UNCHANGED <<calls, activeSyncs>>
    /\ UNCHANGED <<addCalls, broadcaster, integration, genesis, orchestrator>>
    /\ UNCHANGED <<targets, sacredTimeZones, config, syncStrategies, cronJobs,
                   cronTasks, emitted, sacredOp>>

\* Promise.all of the current chunk is rejected, by the first invocation of
\* the chunk that throws: syncAllTargets throws.
SyncAllRejects ==
    /\ EventLoopFree
    /\ allOp.pc = "await"
    /\ \E i \in 1..Len(allOp.issued) : calls[allOp.issued[i]].pc = "thrown"
    /\ allOp' = [allOp EXCEPT !.pc = "thrown"]
    /\ UNCHANGED <<addCalls, broadcaster, integration, genesis, orchestrator>>
    /\ UNCHANGED <<targets, sacredTimeZones, config, syncStrategies, activeSyncs,
                   cronJobs, cronTasks, calls, emitted, sacredOp>>

\* The loop of triggerSacredTimeSync at its head with `todo` left to sync.
SacredLoop(op, todo) ==
    IF todo = <<>>
    THEN /\ sacredOp' = [op EXCEPT !.pc = "returned", !.todo = <<>>]
         /\ emitted' = Append(emitted, [type |-> "sacred-time-trigger",
                                        subject |-> op.zone])
         /\ UNCHANGED <<calls, activeSyncs>>
    ELSE LET r == SyncTargetEnter(calls, activeSyncs, Head(todo))
         IN  /\ calls' = r.calls
             /\ activeSyncs' = r.activeSyncs
             /\ sacredOp' = [op EXCEPT !.pc = "await", !.todo = Tail(todo),
                                !.cur = Len(calls) + 1]
             /\ UNCHANGED emitted

TriggerSacredTimeSync(sacredTimeZoneId) ==
    /\ EventLoopFree
    /\ sacredOp.pc = "idle"
    /\ IF ~MapHas(sacredTimeZones, sacredTimeZoneId)
       THEN /\ sacredOp' = [sacredOp EXCEPT !.pc = "thrown"]
            /\ UNCHANGED <<calls, activeSyncs, emitted>>
       ELSE LET sacredTimeZone == MapGet(sacredTimeZones, sacredTimeZoneId) IN
            IF ~sacredTimeZone.active
            THEN /\ sacredOp' = [sacredOp EXCEPT !.pc = "returned"]
                 /\ UNCHANGED <<calls, activeSyncs, emitted>>
            ELSE /\ CallsLeft >= Len(RelevantTargets(sacredTimeZone))
                 /\ SacredLoop([sacredOp EXCEPT !.zone = sacredTimeZone.name],
                               Ids(RelevantTargets(sacredTimeZone)))
    /\ UNCHANGED <<addCalls, broadcaster, integration, genesis, orchestrator>>
    /\ UNCHANGED <<targets, sacredTimeZones, config, syncStrategies, cronJobs,
                   cronTasks, allOp>>

\* The syncTarget awaited by triggerSacredTimeSync has settled.
SacredSettles ==
    /\ EventLoopFree
    /\ sacredOp.pc = "await"
    /\ SacredAwaited(sacredOp, calls)
    /\ IF calls[sacredOp.cur].pc = "thrown"
       THEN /\ sacredOp' = [sacredOp EXCEPT !.pc = "thrown"]
            /\ UNCHANGED <<calls, activeSyncs, emitted>>
       ELSE SacredLoop([sacredOp EXCEPT !.results = Append(@, sacredOp.cur)],
                       sacredOp.todo)
    /\ UNCHANGED <<addCalls, broadcaster, integration, genesis, orchestrator>>
    /\ UNCHANGED <<targets, sacredTimeZones, config, syncStrategies, cronJobs,
                   cronTasks, allOp>>

RaceOutcomes == {"ok", "fail", "throw", "timeout"}
RetryOutcomes == {"ok", "fail", "throw"}

Next ==
    \/ \E targetId \in TargetIds : SyncTarget(targetId)
    \/ \E task \in 1..Len(cronTasks) : CronFire(task)
    \/ \E c \in 1..Len(calls), outcome \in RaceOutcomes : RaceSettles(c, outcome)
    \/ \E c \in 1..Len(calls) : RetryExecutes(c)
    \/ \E c \in 1..Len(calls), outcome \in RetryOutcomes : RetrySettles(c, outcome)
    \/ SyncAllTargets
    \/ SyncAllChunkSettles
    \/ SyncAllRejects
    \/ \E sacredTimeZoneId \in ZoneIds : TriggerSacredTimeSync(sacredTimeZoneId)
    \/ SacredSettles

Spec == Init /\ [][Next]_vars

\* ------------------------------------------- strategies registered later
\* Number of registerSyncStrategy calls after construction in one behaviour.
MaxRegistrations == 3

\* The strategies callers register; "custom-a" comes in two versions.
CustomStrategies ==
    { [id |-> "custom-a", priority |-> 1,
       handles |-> {<<"system", "file">>, <<"custom", "custom">>}],
      [id |-> "custom-a", priority |-> 5, handles |-> {<<"system", "file">>}],
      [id |-> "custom-b", priority |-> 5, handles |-> {<<"system", "file">>}],
      [id |-> "custom-c", priority |-> 2,
       handles |-> {<<"system", "file">>, <<"system", "http">>}] }

Registrations ==
    Len(SelectSeq(emitted, LAMBDA e : e.type = "strategy-registered"))

RegisterSyncStrategy(strategy) ==
    /\ EventLoopFree
    /\ Registrations < MaxRegistrations
    /\ syncStrategies' = registerSyncStrategy(syncStrategies, strategy)
    /\ emitted' = Append(emitted, [type |-> "strategy-registered",
                                   subject |-> strategy.id])
    /\ UNCHANGED <<addCalls, broadcaster, integration, genesis, orchestrator>>
    /\ UNCHANGED <<targets, sacredTimeZones, config, activeSyncs, cronJobs,
                   cronTasks, calls, allOp, sacredOp>>

\* The engine with all four targets, no retries and the widest ceiling, its
\* strategy registry growing while targets are synced.
InitStrategy ==
    /\ Init
    /\ Len(targets) = 4
    /\ config = [maxConcurrentSyncs |-> MaxCeiling, enableRetries |-> FALSE,
                 maxRetries |-> 0]

NextStrategy ==
    \/ \E strategy \in CustomStrategies : RegisterSyncStrategy(strategy)
    \/ \E targetId \in TargetIds : SyncTarget(targetId)
    \/ \E c \in 1..Len(calls), outcome \in RaceOutcomes : RaceSettles(c, outcome)

SpecStrategy == InitStrategy /\ [][NextStrategy]_vars

\* ------------------------------------------------ configuration updated
\* Number of updateConfig calls in one behaviour.
MaxUpdates == 2

\* updateConfig: this.config = { ...this.config, ...newConfig }
updateConfig(cfg, newConfig) ==
    [k \in DOMAIN cfg |-> IF k \in DOMAIN newConfig THEN newConfig[k] ELSE cfg[k]]

\* The partial configurations callers pass: a new ceiling.
NewConfigs == { [maxConcurrentSyncs |-> n] : n \in 0..MaxCeiling }

Updates ==
    Len(SelectSeq(emitted, LAMBDA e : e.type = "config-updated"))

\* A caller calls updateConfig(newConfig): the merged configuration replaces
\* the old one at once, whatever is in flight, and 'config-updated' is
\* emitted.
UpdateConfig(newConfig) ==
    /\ EventLoopFree
    /\ Updates < MaxUpdates
    /\ config' = updateConfig(config, newConfig)
    /\ emitted' = Append(emitted, [type |-> "config-updated", subject |-> "config"])
    /\ UNCHANGED <<addCalls, broadcaster, integration, genesis, orchestrator>>
    /\ UNCHANGED <<targets, sacredTimeZones, syncStrategies, activeSyncs, cronJobs,
                   cronTasks, calls, allOp, sacredOp>>

\* The engine with two targets and no retries, its configuration updated
\* while targets are synced.
InitReconfig ==
    /\ Init
    /\ Len(targets) = 2
    /\ ~config.enableRetries

NextReconfig ==
    \/ \E newConfig \in NewConfigs : UpdateConfig(newConfig)
    \/ \E targetId \in TargetIds : SyncTarget(targetId)
    \/ \E c \in 1..Len(calls), outcome \in RaceOutcomes : RaceSettles(c, outcome)

SpecReconfig == InitReconfig /\ [][NextReconfig]_vars

\* ------------------------------------------ targets added and removed
\* Number of addTarget calls after Init in one behaviour.
MaxAdds == 2

\* The targets callers add: T1 as it is registered at Init, T1 without a
\* schedule, T1 with a cron expression that cannot be parsed, and a new
\* target with a schedule.
TargetHourly ==
    [id |-> "T5", type |-> "system", method |-> "file", active |-> TRUE,
     cron |-> "valid", hasConditions |-> FALSE, conditions |-> <<>>]

AddableTargets ==
    { TargetFile, [TargetFile EXCEPT !.cron = "none"],
      [TargetFile EXCEPT !.cron = "invalid"], TargetHourly }

RemovableIds == {"T1", "T5"}

SchedulerState ==
    [targets |-> targets, cronJobs |-> cronJobs, cronTasks |-> cronTasks,
     threw |-> FALSE]

\* A caller calls addTarget(target).
AddTarget(target) ==
    /\ EventLoopFree
    /\ Len(addCalls) < MaxAdds
    /\ LET st == addTarget(SchedulerState, target)
       IN  /\ targets' = st.targets
           /\ cronJobs' = st.cronJobs
           /\ cronTasks' = st.cronTasks
           /\ emitted' = IF st.threw THEN emitted
                         ELSE Append(emitted, [type |-> "target-added",
                                               subject |-> target.id])
           /\ addCalls' = Append(addCalls, [target |-> target.id,
                                            cron |-> target.cron,
                                            threw |-> st.threw])
    /\ UNCHANGED <<broadcaster, integration, genesis, orchestrator>>
    /\ UNCHANGED <<sacredTimeZones, config, syncStrategies, activeSyncs, calls,
                   allOp, sacredOp>>

\* A caller calls removeTarget(targetId) for a registered target (for any
\* other id the call changes nothing).
RemoveTarget(targetId) ==
    /\ EventLoopFree
    /\ MapHas(targets, targetId)
    /\ LET st == removeTarget(SchedulerState, targetId)
       IN  /\ targets' = st.targets
           /\ cronJobs' = st.cronJobs
           /\ cronTasks' = st.cronTasks
    /\ emitted' = Append(emitted, [type |-> "target-removed", subject |-> targetId])
    /\ UNCHANGED <<addCalls, broadcaster, integration, genesis, orchestrator>>
    /\ UNCHANGED <<sacredTimeZones, config, syncStrategies, activeSyncs, calls,
                   allOp, sacredOp>>

\* The engine with T1 (scheduled) and T4 registered, whose callers add and
\* remove targets while the scheduler fires; every syncTarget invocation of
\* this specification is made by a cron task.
InitSchedule ==
    /\ Init
    /\ Len(targets) = 2
    /\ config = [maxConcurrentSyncs |-> MaxCeiling, enableRetries |-> FALSE,
                 maxRetries |-> 0]

NextSchedule ==
    \/ \E target \in AddableTargets : AddTarget(target)
    \/ \E targetId \in RemovableIds : RemoveTarget(targetId)
    \/ \E task \in 1..Len(cronTasks) : CronFire(task)
    \/ \E c \in 1..Len(calls), outcome \in RaceOutcomes : RaceSettles(c, outcome)

SpecSchedule == InitSchedule /\ [][NextSchedule]_vars

\* ------------------------------------------------------ PulseBroadcaster
\* Number of broadcastSignal calls in one behaviour.
MaxBroadcasts == 2
\* config.maxConcurrentBroadcasts is drawn from 0..MaxBroadcastCeiling.
MaxBroadcastCeiling == 1

\* -------------------------------------------------------- BaseIntegration
\* Number of callbacks registered with onEvent in one behaviour.
MaxCallbacks == 3
\* Number of emitEvent calls in one behaviour.
MaxEmits == 2

\* The priority ChronoLogger gives an event logged without one.
DefaultPriority == 5

\* TemporalEvent: the fields the filter reads.  hasPriority is FALSE for an
\* event that carries no priority.
EventLow ==
    [type |-> "system", hasPriority |-> TRUE, priority |-> 2,
     tags |-> {"broadcast"}]
EventHigh ==
    [type |-> "cosmic", hasPriority |-> TRUE, priority |-> 8,
     tags |-> {"lunar"}]
EventPlain ==
    [type |-> "human", hasPriority |-> FALSE, priority |-> 0, tags |-> {}]

Events == {EventLow, EventHigh, EventPlain}

\* The filters the broadcaster is constructed with.
FilterSets ==
    { [hasFilters |-> FALSE, minPriority |-> 0, requiredTags |-> <<>>,
       excludedTypes |-> {}],
      [hasFilters |-> TRUE, minPriority |-> 1, requiredTags |-> <<>>,
       excludedTypes |-> {}],
      [hasFilters |-> TRUE, minPriority |-> 5, requiredTags |-> <<>>,
       excludedTypes |-> {}],
      [hasFilters |-> TRUE, minPriority |-> 0,
       requiredTags |-> <<"urgent", "broadcast">>, excludedTypes |-> {}],
      [hasFilters |-> TRUE, minPriority |-> 0, requiredTags |-> <<>>,
       excludedTypes |-> {"cosmic"}],
      [hasFilters |-> TRUE, minPriority |-> 5, requiredTags |-> <<"lunar">>,
       excludedTypes |-> {"system"}] }

BroadcasterConfigs ==
    { [maxConcurrentBroadcasts |-> n, hasFilters |-> f.hasFilters,
       minPriority |-> f.minPriority, requiredTags |-> f.requiredTags,
       excludedTypes |-> f.excludedTypes] :
        n \in 0..MaxBroadcastCeiling, f \in FilterSets }

\* `signal.event.priority || 0`
PriorityOrZero(event) == IF event.hasPriority THEN event.priority ELSE 0

\* shouldBroadcastSignal
shouldBroadcastSignal(cfg, event) ==
    IF ~cfg.hasFilters THEN TRUE
    ELSE IF cfg.minPriority # 0 /\ PriorityOrZero(event) < cfg.minPriority
    THEN FALSE
    ELSE IF /\ Len(cfg.requiredTags) > 0
            /\ ~\E i \in 1..Len(cfg.requiredTags) : cfg.requiredTags[i] \in event.tags
    THEN FALSE
    ELSE IF event.type \in cfg.excludedTypes THEN FALSE
    ELSE TRUE

\* channels.values().filter(isAvailable).sort((a, b) => b.priority - a.priority)
availableChannels(registry) ==
    SortByPriority(SelectSeq(registry, LAMBDA ch : ch.available))

\* the guard `this.activeBroadcasts.size >= this.config.maxConcurrentBroadcasts`
AtBroadcastLimitOffByOne(act, cfg) == Cardinality(act) > cfg.maxConcurrentBroadcasts

AtBroadcastLimit(act, cfg) == Cardinality(act) >= cfg.maxConcurrentBroadcasts

\* A broadcastSignal invocation.  pc is "await" (awaiting Promise.all of the
\* channel promises) or "returned"; left tells where the call returned:
\* "filter", "limit" or "end" ("" while it has not); invoked lists the
\* channels whose broadcast was called, in call order; pending holds the
\* channels whose race has not settled and settled tells how the others'
\* races ended ("true", "false" or "rejected"); results is the Map the call
\* returns, as the set of its entries; status is signal.status.
NewBroadcast(event) ==
    [event |-> event, pc |-> "await", left |-> "", invoked |-> <<>>,
     pending |-> {}, settled |-> {}, results |-> {}, status |-> "pending"]

\* How Promise.race ends for the code that awaits it: fulfilled with the
\* boolean broadcast returned, or rejected, by a broadcast that threw or by
\* the timer.
RaceEnd(outcome) ==
    IF outcome \in {"throw", "timeout"} THEN "rejected" ELSE outcome

\* The body of a channel's promise behind its race: `results.set(channel.id,
\* success)` with the value broadcast returned, or, in the catch block that a
\* throw and the timeout both end in, `results.set(channel.id, false)`.
SettleChannelUncaught(call, ch, outcome) ==
    IF RaceEnd(outcome) = "rejected"
    THEN [call EXCEPT !.pc = "thrown", !.pending = @ \ {ch},
                      !.settled = @ \cup {[id |-> ch, outcome |-> "rejected"]}]
    ELSE [call EXCEPT
            !.pending = @ \ {ch},
            !.settled = @ \cup {[id |-> ch, outcome |-> RaceEnd(outcome)]},
            !.results = @ \cup {[id |-> ch, success |-> (outcome = "true")]}]

SettleChannel(call, ch, outcome) ==
    [call EXCEPT
        !.pending = @ \ {ch},
        !.settled = @ \cup {[id |-> ch, outcome |-> RaceEnd(outcome)]},
        !.results = @ \cup {[id |-> ch, success |-> (RaceEnd(outcome) = "true")]}]

\* `await Promise.all(broadcastPromises)` is fulfilled when every channel's
\* promise is.
FanOutFirstSettled(call) == call.pending # Range(call.invoked)

FanOutAwaited(call) == call.pending = {}

\* `broadcastResults.every(result => result.success) ? 'delivered' : 'failed'`
AggregateStatusAny(results) ==
    IF \E r \in results : r.success THEN "delivered" ELSE "failed"

AggregateStatus(results) ==
    IF \A r \in results : r.success THEN "delivered" ELSE "failed"

\* `finally { this.activeBroadcasts.delete(broadcastId) }`
ReleaseBroadcastNothing(act, broadcastId) == act

ReleaseBroadcast(act, broadcastId) == act \ {broadcastId}

\* The segment of broadcastSignal from its call to its first await, on the
\* invocation list bs, the in-flight set act and the notifications sent.  The
\* broadcast id (a fresh uuid) is the invocation's position in bs.
\* The early returns of broadcastSignal, at the filter and at the limit:
\* `return results` with the Map still empty; signal.status is not written.
DroppedMarkedFailed(call, left) ==
    [call EXCEPT !.pc = "returned", !.left = left, !.status = "failed"]

Dropped(call, left) == [call EXCEPT !.pc = "returned", !.left = left]

BroadcastSignalEnter(bs, act, sent, event) ==
    LET broadcastId == Len(bs) + 1
        call        == NewBroadcast(event)
        available   == availableChannels(channels)
    IN
    IF ~shouldBroadcastSignal(broadcasterConfig, event)
    THEN [broadcasts |-> Append(bs, Dropped(call, "filter")),
          activeBroadcasts |-> act,
          pulseEmitted |-> Append(sent, [type |-> "signal-filtered",
                                         subject |-> broadcastId])]
    ELSE IF AtBroadcastLimit(act, broadcasterConfig)
    THEN [broadcasts |-> Append(bs, Dropped(call, "limit")),
          activeBroadcasts |-> act,
          pulseEmitted |-> Append(sent, [type |-> "broadcast-limited",
                                         subject |-> broadcastId])]
    ELSE [broadcasts |-> Append(bs, [call EXCEPT !.invoked = Ids(available),
                                                 !.pending = Range(Ids(available))]),
          activeBroadcasts |-> act \cup {broadcastId},
          pulseEmitted |-> sent]

\* A caller calls broadcastSignal with a new signal for `event`.
BroadcastSignal(event) ==
    /\ Len(broadcasts) < MaxBroadcasts
    /\ LET r == BroadcastSignalEnter(broadcasts, activeBroadcasts, pulseEmitted, event)
       IN  /\ broadcasts' = r.broadcasts
           /\ activeBroadcasts' = r.activeBroadcasts
           /\ pulseEmitted' = r.pulseEmitted
    /\ UNCHANGED <<channels, broadcasterConfig>>
    /\ UNCHANGED <<targets, sacredTimeZones, config, syncStrategies, activeSyncs,
                   cronJobs, cronTasks, calls, emitted, allOp, sacredOp, addCalls,
                   integration, genesis, orchestrator>>

\* The race of channel ch in invocation b settles: broadcast returned true
\* or false, or it threw or the timer rejected first (both end in the catch
\* block): results.set(channel.id, success).
ChannelOutcomes == {"true", "false", "throw", "timeout"}

ChannelSettles(b, ch, outcome) ==
    /\ broadcasts[b].pc = "await"
    /\ ch \in broadcasts[b].pending
    /\ broadcasts' = [broadcasts EXCEPT ![b] = SettleChannel(@, ch, outcome)]
    /\ UNCHANGED <<channels, broadcasterConfig, activeBroadcasts, pulseEmitted>>
    /\ UNCHANGED <<targets, sacredTimeZones, config, syncStrategies, activeSyncs,
                   cronJobs, cronTasks, calls, emitted, allOp, sacredOp, addCalls,
                   integration, genesis, orchestrator>>

\* Promise.all(broadcastPromises) is fulfilled: the status is set,
\* 'broadcast-completed' is emitted, the call returns and the finally block
\* deletes the broadcast id.
BroadcastCompletes(b) ==
    /\ broadcasts[b].pc = "await"
    /\ FanOutAwaited(broadcasts[b])
    /\ broadcasts' = [broadcasts EXCEPT
          ![b].pc = "returned",
          ![b].left = "end",
          ![b].status = AggregateStatus(broadcasts[b].results)]
    /\ pulseEmitted' = Append(pulseEmitted, [type |-> "broadcast-completed",
                                             subject |-> b])
    /\ activeBroadcasts' = ReleaseBroadcast(activeBroadcasts, b)
    /\ UNCHANGED <<channels, broadcasterConfig>>
    /\ UNCHANGED <<targets, sacredTimeZones, config, syncStrategies, activeSyncs,
                   cronJobs, cronTasks, calls, emitted, allOp, sacredOp, addCalls,
                   integration, genesis, orchestrator>>

\* The broadcaster as constructed on win32 (console, file and api available)
\* with one of the configurations, beside an engine that is left alone.
InitBroadcast ==
    /\ ResonatorInit
    /\ IntegrationConstructed
    /\ GenesisConstructed
    /\ OrchestratorConstructed
    /\ Len(targets) = 2
    /\ config = [maxConcurrentSyncs |-> MaxCeiling, enableRetries |-> FALSE,
                 maxRetries |-> 0]
    /\ \E cfg \in BroadcasterConfigs : Constructed(cfg, "win32")

\* The filter and the limit do not look at how the channels fare: one
\* success and one failure stand for all outcomes here.
GateOutcomes == {"true", "timeout"}

NextBroadcast ==
    \/ \E event \in Events : BroadcastSignal(event)
    \/ \E b \in 1..Len(broadcasts), ch \in Range(Ids(channels)),
          outcome \in GateOutcomes : ChannelSettles(b, ch, outcome)
    \/ \E b \in 1..Len(broadcasts) : BroadcastCompletes(b)

SpecBroadcast == InitBroadcast /\ [][NextBroadcast]_vars

\* The fan-out: the broadcaster with the default filters, which let the
\* signals of this specification pass, and channels that end in every way.
InitFanOut ==
    /\ ResonatorInit
    /\ IntegrationConstructed
    /\ GenesisConstructed
    /\ OrchestratorConstructed
    /\ Len(targets) = 2
    /\ config = [maxConcurrentSyncs |-> MaxCeiling, enableRetries |-> FALSE,
                 maxRetries |-> 0]
    /\ \E n \in 0..MaxBroadcastCeiling :
          Constructed([DEFAULT_PULSE_BROADCASTER_CONFIG
                          EXCEPT !.maxConcurrentBroadcasts = n], "win32")

NextFanOut ==
    \/ BroadcastSignal(EventHigh)
    \/ \E b \in 1..Len(broadcasts), ch \in Range(Ids(channels)),
          outcome \in ChannelOutcomes : ChannelSettles(b, ch, outcome)
    \/ \E b \in 1..Len(broadcasts) : BroadcastCompletes(b)

SpecFanOut == InitFanOut /\ [][NextFanOut]_vars

\* --------------------------------------------------------- BaseIntegration
\* The callbacks callers register: two that return and one that throws.
Callbacks ==
    { [id |-> "cb1", throws |-> FALSE], [id |-> "cb2", throws |-> TRUE],
      [id |-> "cb3", throws |-> FALSE] }

\* A caller registers a callback.
OnEvent(callback) ==
    /\ Len(eventCallbacks) < MaxCallbacks
    /\ eventCallbacks' = onEvent(eventCallbacks, callback)
    /\ UNCHANGED <<emitCalls, isInitialized, isRunning, lifecycle>>
    /\ UNCHANGED <<targets, sacredTimeZones, config, syncStrategies, activeSyncs,
                   cronJobs, cronTasks, calls, emitted, allOp, sacredOp, addCalls,
                   broadcaster, genesis, orchestrator>>

\* The integration emits an event: emitEvent is synchronous and runs from its
\* call to its return in one step.
EmitEvent ==
    /\ Len(emitCalls) < MaxEmits
    /\ emitCalls' = Append(emitCalls, emitEvent(eventCallbacks))
    /\ UNCHANGED <<eventCallbacks, isInitialized, isRunning, lifecycle>>
    /\ UNCHANGED <<targets, sacredTimeZones, config, syncStrategies, activeSyncs,
                   cronJobs, cronTasks, calls, emitted, allOp, sacredOp, addCalls,
                   broadcaster, genesis, orchestrator>>

InitIntegration ==
    /\ Init
    /\ Len(targets) = 2
    /\ config = [maxConcurrentSyncs |-> MaxCeiling, enableRetries |-> FALSE,
                 maxRetries |-> 0]

NextIntegration ==
    \/ \E callback \in Callbacks : OnEvent(callback)
    \/ EmitEvent

SpecIntegration == InitIntegration /\ [][NextIntegration]_vars

\* ----------------------------------------------- BaseIntegration lifecycle
\* Number of initialize, start, stop and sendEvent calls in one behaviour.
MaxLifecycleCalls == 4

Flags == [isInitialized |-> isInitialized, isRunning |-> isRunning]

\* A caller calls a lifecycle method; the call runs to its first await or to
\* its early return or throw.
LifecycleEnter(call) ==
    /\ Len(lifecycle) < MaxLifecycleCalls
    /\ lifecycle' = Append(lifecycle, call)
    /\ UNCHANGED <<eventCallbacks, emitCalls, isInitialized, isRunning>>
    /\ UNCHANGED <<targets, sacredTimeZones, config, syncStrategies, activeSyncs,
                   cronJobs, cronTasks, calls, emitted, allOp, sacredOp, addCalls,
                   broadcaster, genesis, orchestrator>>

Initialize == LifecycleEnter(initializeEnter(Flags))

Start == LifecycleEnter(startEnter(Flags))

Stop == LifecycleEnter(stopEnter(Flags))

SendEvent == LifecycleEnter(sendEventEnter(Flags))

\* The hook awaited by call i settles: it is fulfilled ("ok") or rejected
\* ("throw").
HookOutcomes == {"ok", "throw"}

HookSettles(i, outcome) ==
    /\ lifecycle[i].pc = "await"
    /\ LET st == AfterHook(Flags, lifecycle[i].op, outcome)
       IN  /\ isInitialized' = st.isInitialized
           /\ isRunning' = st.isRunning
    /\ lifecycle' = [lifecycle EXCEPT
                       ![i].pc = IF outcome = "ok" THEN "returned" ELSE "thrown"]
    /\ UNCHANGED <<eventCallbacks, emitCalls>>
    /\ UNCHANGED <<targets, sacredTimeZones, config, syncStrategies, activeSyncs,
                   cronJobs, cronTasks, calls, emitted, allOp, sacredOp, addCalls,
                   broadcaster, genesis, orchestrator>>

NextLifecycle ==
    \/ Initialize
    \/ Start
    \/ Stop
    \/ SendEvent
    \/ \E i \in 1..Len(lifecycle), outcome \in HookOutcomes : HookSettles(i, outcome)

SpecLifecycle == InitIntegration /\ [][NextLifecycle]_vars

\* ------------------------------------------------ PrimalGenesisIntegration
\* Number of connectToEventStream invocations and pending reconnection
\* timers in one behaviour.
MaxConnects == 3

\* The stream fields of the integration, as one value the methods transform.
Stream == [eventSource |-> eventSource, streams |-> streams,
           reconnectAttempts |-> reconnectAttempts,
           reconnectTimers |-> reconnectTimers]

\* disconnectFromEventStream: close the current EventSource, if any, and
\* clear the field.
disconnectFromEventStream(g) ==
    IF g.eventSource # 0
    THEN [g EXCEPT !.streams[g.eventSource].state = "closed", !.eventSource = 0]
    ELSE g

\* handleStreamError: disconnect; give up at maxReconnectAttempts; else
\* count the attempt and set a timer that will call connectToEventStream.
\* The timer handle is not kept.
handleStreamError(g) ==
    LET d == disconnectFromEventStream(g)
    IN  IF d.reconnectAttempts >= maxReconnectAttempts THEN d
        ELSE [d EXCEPT !.reconnectAttempts = @ + 1, !.reconnectTimers = @ + 1]

\* connectToEventStream behind `await this.auth.getAccessToken()`: with the
\* token, `this.eventSource = new EventSource(url)` (whatever the field
\* held); when getAccessToken rejected, the catch block calls
\* handleStreamError.
connectWithToken(g, outcome) ==
    IF outcome = "ok"
    THEN [g EXCEPT !.streams = Append(@, [state |-> "connecting"]),
                   !.eventSource = Len(g.streams) + 1]
    ELSE handleStreamError(g)

SetStream(g) ==
    /\ eventSource' = g.eventSource
    /\ streams' = g.streams
    /\ reconnectAttempts' = g.reconnectAttempts
    /\ reconnectTimers' = g.reconnectTimers

\* What no PrimalGenesisIntegration method touches.
GenesisFrame ==
    /\ UNCHANGED <<eventCallbacks, emitCalls>>
    /\ UNCHANGED <<targets, sacredTimeZones, config, syncStrategies, activeSyncs,
                   cronJobs, cronTasks, calls, emitted, allOp, sacredOp, addCalls,
                   broadcaster, orchestrator>>

\* initialize is BaseIntegration's; its hook setup awaits auth.initialize().
SetupSettles(i, outcome) ==
    /\ lifecycle[i].op = "initialize"
    /\ HookSettles(i, outcome)

\* A caller calls start().  Its hook onStart awaits connectToEventStream,
\* which returns at once when eventSource is set (start then completes) and
\* else suspends at getAccessToken.
GenesisStart ==
    /\ Len(lifecycle) < MaxLifecycleCalls
    /\ LET call == startEnter(Flags)
       IN  IF ~call.hooked
           THEN /\ lifecycle' = Append(lifecycle, call)
                /\ UNCHANGED <<isRunning, connects>>
           ELSE IF eventSource # 0
           THEN /\ lifecycle' = Append(lifecycle, [call EXCEPT !.pc = "returned"])
                /\ isRunning' = TRUE
                /\ UNCHANGED connects
           ELSE /\ Len(connects) < MaxConnects
                /\ lifecycle' = Append(lifecycle, call)
                /\ connects' = Append(connects, [by |-> "start", pc |-> "token",
                                                 call |-> Len(lifecycle) + 1])
                /\ UNCHANGED isRunning
    /\ UNCHANGED <<isInitialized, eventSource, streams, reconnectAttempts,
                   reconnectTimers>>
    /\ GenesisFrame

\* A caller calls stop().  Its hook onStop disconnects and cleans up the
\* auth without awaiting anything, so the call completes: isRunning = false.
GenesisStop ==
    /\ Len(lifecycle) < MaxLifecycleCalls
    /\ LET call == stopEnter(Flags)
       IN  IF ~call.hooked
           THEN /\ lifecycle' = Append(lifecycle, call)
                /\ UNCHANGED <<isRunning, eventSource, streams, reconnectAttempts,
                               reconnectTimers>>
           ELSE /\ lifecycle' = Append(lifecycle, [call EXCEPT !.pc = "returned"])
                /\ isRunning' = FALSE
                /\ SetStream(disconnectFromEventStream(Stream))
    /\ UNCHANGED <<isInitialized, connects>>
    /\ GenesisFrame

\* getAccessToken settles for connect k, which goes on to create the
\* EventSource or to handleStreamError and returns; a start awaiting it
\* completes.
TokenOutcomes == {"ok", "throw"}

TokenSettles(k, outcome) ==
    /\ connects[k].pc = "token"
    /\ outcome = "throw" => Len(connects) + reconnectTimers < MaxConnects
    /\ SetStream(connectWithToken(Stream, outcome))
    /\ connects' = [connects EXCEPT ![k].pc = "done"]
    /\ IF connects[k].by = "start"
       THEN /\ lifecycle' = [lifecycle EXCEPT ![connects[k].call].pc = "returned"]
            /\ isRunning' = TRUE
       ELSE UNCHANGED <<lifecycle, isRunning>>
    /\ UNCHANGED isInitialized
    /\ GenesisFrame

\* EventSource s fires onopen.
StreamOpens(s) ==
    /\ streams[s].state = "connecting"
    /\ streams' = [streams EXCEPT ![s].state = "open"]
    /\ reconnectAttempts' = 0
    /\ UNCHANGED <<eventSource, connects, reconnectTimers, isInitialized,
                   isRunning, lifecycle>>
    /\ GenesisFrame

\* EventSource s, not closed, fires onerror.
StreamError(s) ==
    /\ streams[s].state # "closed"
    /\ Len(connects) + reconnectTimers < MaxConnects
    /\ SetStream(handleStreamError(Stream))
    /\ UNCHANGED <<connects, isInitialized, isRunning, lifecycle>>
    /\ GenesisFrame

\* A reconnection timer fires and calls connectToEventStream, which returns
\* when eventSource is set and else suspends at getAccessToken.
ReconnectTimerFires ==
    /\ reconnectTimers > 0
    /\ reconnectTimers' = reconnectTimers - 1
    /\ connects' = IF eventSource # 0 THEN connects
                   ELSE Append(connects, [by |-> "timer", pc |-> "token", call |-> 0])
    /\ UNCHANGED <<eventSource, streams, reconnectAttempts, isInitialized,
                   isRunning, lifecycle>>
    /\ GenesisFrame

NextGenesis ==
    \/ Initialize
    \/ \E i \in 1..Len(lifecycle), outcome \in HookOutcomes : SetupSettles(i, outcome)
    \/ GenesisStart
    \/ GenesisStop
    \/ \E k \in 1..Len(connects), outcome \in TokenOutcomes : TokenSettles(k, outcome)
    \/ \E s \in 1..Len(streams) : StreamOpens(s)
    \/ \E s \in 1..Len(streams) : StreamError(s)
    \/ ReconnectTimerFires

SpecGenesis == InitIntegration /\ [][NextGenesis]_vars

\* ------------------------------------------- MKronoSphere event coordination
\* Number of active targets registered with the orchestrator's resonator,
\* and of events logged from outside, in one behaviour.
MaxRegistered == 2
MaxLoggedEvents == 1

\* The resonator's pending syncs and the broadcaster's activeBroadcasts.size,
\* as one value the handlers transform.
Coordination == [syncs |-> resonatorSyncs, broadcasts |-> pulseBroadcasts]

\* The number of syncTarget calls of a run.
RECURSIVE Pending(_, _)
Pending(run, a) ==
    IF a > OrchestratorMaxRetries THEN 0 ELSE run.at[a] + Pending(run, a + 1)

\* activeSyncs.size: the number of syncTarget calls holding an id.
RECURSIVE HeldIn(_, _)
HeldIn(syncs, runs) ==
    IF runs = {} THEN 0
    ELSE LET r == CHOOSE x \in runs : TRUE
         IN  syncs[r] * Pending(r, 0) + HeldIn(syncs, runs \ {r})

Held(syncs) == HeldIn(syncs, BagToSet(syncs))

\* The bag with one copy of run r replaced by r2, or removed when r2 has no
\* call left.
Replace(syncs, r, r2) ==
    (syncs (-) SetToBag({r})) (+) (IF Pending(r2, 0) = 0 THEN EmptyBag ELSE SetToBag({r2}))

\* One call of run r moves from position a to position b.
Moved(r, a, b) == [r EXCEPT !.at[a] = @ - 1, !.at[b] = @ + 1]

\* One call of run r in position a returns or throws.
Left(r, a) == [r EXCEPT !.at[a] = @ - 1]

\* broadcastSignal up to its first await, for a signal the filter passes
\* (minPriority is 1; the signals sent here have priority 4 or more): at
\* the ceiling the signal is dropped, else its id joins activeBroadcasts.
broadcastEnter(b) ==
    IF b >= OrchestratorBroadcastCeiling THEN b ELSE b + 1

\* syncAllTargets up to its first await, with `held` ids in activeSyncs.
\* The n active targets form one chunk (n is below the chunk size, the
\* ceiling); syncTarget is called for each in turn and returns 'Maximum
\* concurrent syncs reached' at the ceiling, else adds its id and awaits the
\* race.  The value is the number of calls left pending.
RECURSIVE SyncChunk(_, _)
SyncChunk(held, n) ==
    IF n = 0 THEN 0
    ELSE IF held >= OrchestratorSyncCeiling THEN SyncChunk(held, n - 1)
    ELSE 1 + SyncChunk(held + 1, n - 1)

\* The 'temporal-event' handler with n targets registered, up to its first
\* pending await: syncAllTargets, and broadcastEvent when no syncTarget
\* call was left pending.
temporalEventHandler(c, n) ==
    LET k == SyncChunk(Held(c.syncs), n)
        run == Run(TRUE, [a \in Positions |-> IF a = 0 THEN k ELSE 0])
    IN  IF k = 0 THEN [c EXCEPT !.broadcasts = broadcastEnter(@)]
        ELSE [c EXCEPT !.syncs = @ (+) SetToBag({run})]

\* The 'sync-completed' handler up to its await: logSystemEvent, whose
\* logEvent emits 'temporal-event' (enableRealTimeEmission is true), and
\* then broadcastMessage.
syncCompletedHandler(c, n) ==
    LET logged == temporalEventHandler(c, n)
    IN  [logged EXCEPT !.broadcasts = broadcastEnter(@)]

\* A call of run r has settled, leaving r2: the finally block deletes its
\* id, and when it was the last call an awaiting syncAllTargets has all its
\* results and its handler goes on to broadcastEvent.
Released(c, r, r2) ==
    LET c2 == [c EXCEPT !.syncs = Replace(@, r, r2)]
    IN  IF r.awaited /\ Pending(r2, 0) = 0
        THEN [c2 EXCEPT !.broadcasts = broadcastEnter(@)]
        ELSE c2

SetCoordination(c) ==
    /\ resonatorSyncs' = c.syncs
    /\ pulseBroadcasts' = c.broadcasts

\* What the coordination handlers do not touch.
CoordinationFrame ==
    UNCHANGED <<targets, sacredTimeZones, config, syncStrategies, activeSyncs,
                cronJobs, cronTasks, calls, emitted, allOp, sacredOp, addCalls,
                broadcaster, integration, genesis>>

\* A caller registers one more active target.
RegisterTarget ==
    /\ registered < MaxRegistered
    /\ registered' = registered + 1
    /\ UNCHANGED <<resonatorSyncs, pulseBroadcasts, loggedEvents>>
    /\ CoordinationFrame

\* An event is logged from outside: logEvent emits 'temporal-event'.
LogEvent ==
    /\ loggedEvents < MaxLoggedEvents
    /\ loggedEvents' = loggedEvents + 1
    /\ SetCoordination(temporalEventHandler(Coordination, registered))
    /\ UNCHANGED registered
    /\ CoordinationFrame

\* The race of a syncTarget call of run r settles with a result whose
\* success is true: 'sync-completed' is emitted, the handler runs while the
\* id is still in activeSyncs, then the finally block deletes the id.
SyncSucceeds(r) ==
    /\ r.at[0] > 0
    /\ SetCoordination(Released(syncCompletedHandler(Coordination, registered),
                                r, Left(r, 0)))
    /\ UNCHANGED <<registered, loggedEvents>>
    /\ CoordinationFrame

\* The race settles with a result whose success is false: retries are
\* enabled, so the call awaits retrySync, keeping its id.
SyncFails(r) ==
    /\ r.at[0] > 0
    /\ resonatorSyncs' = Replace(resonatorSyncs, r, Moved(r, 0, 1))
    /\ UNCHANGED <<registered, pulseBroadcasts, loggedEvents>>
    /\ CoordinationFrame

\* The timeout wins the race: syncTarget rejects, so Promise.all and
\* syncAllTargets reject and the 'temporal-event' handler ends in its catch
\* block; the other calls of the chunk go on with nobody awaiting them.
SyncTimesOut(r) ==
    /\ r.at[0] > 0
    /\ resonatorSyncs' = Replace(resonatorSyncs, r, [Left(r, 0) EXCEPT !.awaited = FALSE])
    /\ UNCHANGED <<registered, pulseBroadcasts, loggedEvents>>
    /\ CoordinationFrame

\* Attempt a of a retrySync settles: on success, or after the last attempt,
\* the result is returned without any emit and the id is deleted.
RetryEnds == {"ok", "failed"}

RetrySyncSettles(r, a, outcome) ==
    /\ a >= 1
    /\ r.at[a] > 0
    /\ IF outcome = "failed" /\ a < OrchestratorMaxRetries
       THEN /\ resonatorSyncs' = Replace(resonatorSyncs, r, Moved(r, a, a + 1))
            /\ UNCHANGED pulseBroadcasts
       ELSE SetCoordination(Released(Coordination, r, Left(r, a)))
    /\ UNCHANGED <<registered, loggedEvents>>
    /\ CoordinationFrame

\* A broadcast settles: its id leaves activeBroadcasts and the handler that
\* awaited it ends.
CoordBroadcastSettles ==
    /\ pulseBroadcasts > 0
    /\ pulseBroadcasts' = pulseBroadcasts - 1
    /\ UNCHANGED <<registered, resonatorSyncs, loggedEvents>>
    /\ CoordinationFrame

\* Some syncTarget call in flight moves on.
SyncMoves ==
    \E r \in BagToSet(resonatorSyncs) :
        \/ SyncSucceeds(r)
        \/ SyncFails(r)
        \/ SyncTimesOut(r)
        \/ \E a \in Positions, outcome \in RetryEnds : RetrySyncSettles(r, a, outcome)

NextCoordination ==
    \/ RegisterTarget
    \/ LogEvent
    \/ \E r \in BagToSet(resonatorSyncs) : SyncSucceeds(r)
    \/ \E r \in BagToSet(resonatorSyncs) : SyncFails(r)
    \/ \E r \in BagToSet(resonatorSyncs) : SyncTimesOut(r)
    \/ \E r \in BagToSet(resonatorSyncs), a \in Positions, outcome \in RetryEnds :
          RetrySyncSettles(r, a, outcome)
    \/ CoordBroadcastSettles

\* The orchestrator constructed, the components it does not use in one
\* fixed state.
InitCoordination == InitIntegration

SpecCoordination == InitCoordination /\ [][NextCoordination]_vars

\* Every operation in flight settles: the race by syncTimeout at the latest,
\* a retry by its strategy, a broadcast by broadcastTimeout.
SpecCoordinationFair ==
    /\ SpecCoordination
    /\ WF_vars(SyncMoves)
    /\ WF_vars(CoordBroadcastSettles)

\* ================================================================ claims

\* C1: in every reachable state the number of in-flight syncs
\* (activeSyncs.size) is at least 0 and at most maxConcurrentSyncs.
InFlightWithinCeiling ==
    /\ Cardinality(activeSyncs) >= 0
    /\ Cardinality(activeSyncs) <= config.maxConcurrentSyncs

\* C1 witness: as many syncs are in flight as the ceiling allows, and more
\* than one
CeilingReached ==
    /\ Cardinality(activeSyncs) = config.maxConcurrentSyncs
    /\ Cardinality(activeSyncs) >= 2

\* C2: a token in activeSyncs belongs to a syncTarget invocation that is
\* still in progress; so when no invocation is in progress the in-flight
\* count is 0, whatever the exit paths taken.
TokensOnlyWhileInProgress ==
    /\ \A syncId \in activeSyncs :
          syncId \in 1..Len(calls) /\ ~Settled(calls[syncId])
    /\ (\A c \in 1..Len(calls) : Settled(calls[c])) => Cardinality(activeSyncs) = 0

\* C2 witness: two invocations that held a token are over, one by the
\* timeout and one by retry exhaustion
ReleasedOnTimeoutAndExhaustion ==
    /\ \A c \in 1..Len(calls) : Settled(calls[c])
    /\ \E c \in 1..Len(calls) : calls[c].pc = "thrown" /\ calls[c].error = "Sync timeout"
    /\ \E c \in 1..Len(calls) :
          /\ calls[c].pc = "returned"
          /\ calls[c].result.error = "Sync failed after retry attempts"
          /\ calls[c].execs >= 2

\* C3: when the strategy does not settle before the timeout, syncTarget
\* returns a SyncResult with success=false and a timeout error; it does not
\* throw.
TimeoutYieldsFailedResult ==
    \A c \in 1..Len(calls) :
        calls[c].first = "timeout" =>
            /\ calls[c].pc = "returned"
            /\ ~calls[c].result.success
            /\ calls[c].result.error = "Sync timeout"

\* C4: when execute throws on the first attempt, syncTarget does not throw:
\* with retries enabled it is in, or has returned from, the retry loop, and
\* otherwise it has returned a SyncResult with success=false.
StrategyThrowNotPropagated ==
    \A c \in 1..Len(calls) :
        calls[c].first = "throw" =>
            /\ calls[c].pc # "thrown"
            /\ ~config.enableRetries =>
                  calls[c].pc = "returned" /\ ~calls[c].result.success

\* C5: with retries enabled and maxRetries = N, a completed syncTarget whose
\* every attempt failed (returned success=false or threw) has called execute
\* at most N+1 times and has returned a failed result that reports the
\* exhaustion of the retries.
AlwaysFailingExhausts ==
    \A c \in 1..Len(calls) :
        ( /\ config.enableRetries
          /\ Settled(calls[c])
          /\ calls[c].first \in {"fail", "throw"}
          /\ calls[c].okAt = 0 ) =>
            /\ calls[c].execs <= config.maxRetries + 1
            /\ calls[c].pc = "returned"
            /\ ~calls[c].result.success
            /\ calls[c].result.error = "Sync failed after retry attempts"

\* C6: the first retry attempt that returns success=true ends the loop:
\* syncTarget has returned that attempt's result, execute is not called
\* again, and no result of the earlier failed attempts is visible (returned
\* or notified).
RetrySuccessEndsLoop ==
    \A c \in 1..Len(calls) :
        calls[c].okAt > 1 =>
            /\ calls[c].pc = "returned"
            /\ calls[c].result = StrategyResult(TRUE, calls[c].okAt)
            /\ calls[c].execs = calls[c].okAt
            /\ \A i \in 1..Len(calls[c].notified) : calls[c].notified[i].success

\* C6 witness: the second retry succeeded after the first attempt and the
\* first retry had failed
SecondRetrySucceeded ==
    \E c \in 1..Len(calls) :
        calls[c].okAt = 3 /\ calls[c].pc = "returned" /\ calls[c].result.success

\* C7: a syncTarget for a registered target with active=false has returned
\* the inactive failure; it has thrown nothing, called no strategy and holds
\* no token, whatever the in-flight count was.
InactiveTargetFailsQuietly ==
    \A c \in 1..Len(calls) :
        ( MapHas(targets, calls[c].target)
          /\ ~MapGet(targets, calls[c].target).active ) =>
            /\ calls[c].pc = "returned"
            /\ calls[c].result = FailedResult("Target is not active")
            /\ calls[c].execs = 0
            /\ calls[c].strategy = "undefined"
            /\ c \notin activeSyncs

\* C7 witness: an inactive target was synced while the in-flight count was at
\* the ceiling (the earlier invocation is still in flight)
InactiveAtCeiling ==
    \E c \in 1..Len(calls) :
        /\ calls[c].result.error = "Target is not active"
        /\ calls[c].pc = "returned"
        /\ Cardinality({b \in activeSyncs : b < c}) >= config.maxConcurrentSyncs
        /\ config.maxConcurrentSyncs >= 1

\* The invocations a step adds, and the in-flight count invocation n met
\* when it was entered (a step that enters invocations releases no token of
\* an earlier step).
NewCalls == (Len(calls) + 1)..Len(calls')

CountBefore(n) == Cardinality({m \in activeSyncs' : m < n})

ActiveRegistered(targetId) ==
    MapHas(targets, targetId) /\ MapGet(targets, targetId).active

\* C8: a syncTarget for a registered active target entered while the
\* in-flight count is at or above maxConcurrentSyncs has returned the
\* concurrency-limit failure within the step that entered it: it waits for
\* nothing, calls no strategy and leaves the in-flight set as it was.
ConcurrencyLimitImmediate ==
    [][ \A n \in NewCalls :
          ( ActiveRegistered(calls'[n].target)
            /\ CountBefore(n) >= config.maxConcurrentSyncs ) =>
              /\ calls'[n].pc = "returned"
              /\ ~calls'[n].result.success
              /\ calls'[n].result.error = "Maximum concurrent syncs reached"
              /\ calls'[n].execs = 0
              /\ calls'[n].strategy = "undefined"
              /\ n \notin activeSyncs'
              /\ (Len(calls') = Len(calls) + 1 => activeSyncs' = activeSyncs)
      ]_vars

\* C8 witness: an active target was turned away at a ceiling of at least 1
\* while the invocation that holds the slot is still in flight
TurnedAwayAtCeiling ==
    \E c \in 1..Len(calls) :
        /\ calls[c].pc = "returned"
        /\ calls[c].result.error = "Maximum concurrent syncs reached"
        /\ calls[c].execs = 0
        /\ config.maxConcurrentSyncs >= 1
        /\ \E b \in activeSyncs : b < c

\* C9: a syncTarget for an id that is not registered has thrown NotFound
\* whatever the in-flight count, and a syncTarget for an active target
\* entered with a free slot and accepted by no registered strategy has thrown
\* NoStrategy; neither has executed a strategy nor keeps a token.
CallerErrorsAreThrown ==
    [][ \A n \in NewCalls :
          /\ ~MapHas(targets, calls'[n].target) =>
                /\ calls'[n].pc = "thrown"
                /\ calls'[n].error = "Target not found"
                /\ calls'[n].execs = 0
                /\ n \notin activeSyncs'
          /\ ( /\ ActiveRegistered(calls'[n].target)
               /\ CountBefore(n) < config.maxConcurrentSyncs
               /\ \A i \in 1..Len(syncStrategies) :
                     ~canHandle(syncStrategies[i], MapGet(targets, calls'[n].target)) ) =>
                /\ calls'[n].pc = "thrown"
                /\ calls'[n].error = "No suitable sync strategy found"
                /\ calls'[n].execs = 0
                /\ n \notin activeSyncs'
      ]_vars

\* C9 witness: one syncTarget has thrown NoStrategy and another NotFound
BothCallerErrorsThrown ==
    /\ \E c \in 1..Len(calls) :
          /\ calls[c].pc = "thrown"
          /\ calls[c].error = "Target not found"
          /\ calls[c].target = "TX"
    /\ \E b \in 1..Len(calls) :
          /\ calls[b].pc = "thrown"
          /\ calls[b].error = "No suitable sync strategy found"
          /\ calls[b].target = "T3"

\* C10: the strategy a syncTarget resolves for its target is, among the
\* registered strategies whose canHandle accepts the target, one of maximum
\* priority, and it is no strategy exactly when none accepts the target.
ResolutionPicksMaxPriority ==
    [][ \A n \in NewCalls :
          ( ActiveRegistered(calls'[n].target)
            /\ CountBefore(n) < config.maxConcurrentSyncs ) =>
              LET target == MapGet(targets, calls'[n].target)
                  applicable == {i \in 1..Len(syncStrategies) :
                                    canHandle(syncStrategies[i], target)}
              IN  /\ (applicable = {}) <=> (calls'[n].strategy = "undefined")
                  /\ applicable # {} =>
                        \E i \in applicable :
                            /\ syncStrategies[i].id = calls'[n].strategy
                            /\ \A j \in applicable :
                                  syncStrategies[j].priority <= syncStrategies[i].priority
      ]_vars

\* C10 witness: a sync of T1 resolved "custom-b" (priority 5) although
\* strategies of lower priority that accept T1 stand before it in the registry
HigherPriorityResolved ==
    \E c \in 1..Len(calls) :
        /\ calls[c].target = "T1"
        /\ calls[c].strategy = "custom-b"
        /\ \E i, j \in 1..Len(syncStrategies) :
              /\ i < j
              /\ syncStrategies[j].id = "custom-b"
              /\ syncStrategies[i].id = "custom-a"
              /\ syncStrategies[i].priority < 5

\* The positions in `emitted` of the registerSyncStrategy calls made for id
\* since construction; a strategy registered by the constructor has none.
RegistrationsOf(id) ==
    {i \in 1..Len(emitted) :
        emitted[i].type = "strategy-registered" /\ emitted[i].subject = id}

Least(S) == CHOOSE x \in S : \A y \in S : x <= y

Greatest(S) == CHOOSE x \in S : \A y \in S : y <= x

\* When the strategy now stored under id was registered (0: by the
\* constructor), and when id was registered for the first time.
RegisteredAt(id) ==
    IF RegistrationsOf(id) = {} THEN 0 ELSE Greatest(RegistrationsOf(id))

FirstRegisteredAt(id) ==
    IF RegistrationsOf(id) = {} THEN 0 ELSE Least(RegistrationsOf(id))

\* The registry positions of the strategies that accept the target and have
\* the highest priority among those that do.
TopApplicable(target) ==
    LET applicable == {i \in 1..Len(syncStrategies) :
                          canHandle(syncStrategies[i], target)}
    IN  {i \in applicable :
            \A j \in applicable :
                syncStrategies[j].priority <= syncStrategies[i].priority}

\* C11 as stated: when several applicable strategies share the highest
\* priority, the strategy a syncTarget resolves is the one of them that was
\* registered before the others.
TieGoesToFirstRegistered ==
    [][ \A n \in NewCalls :
          ( ActiveRegistered(calls'[n].target)
            /\ CountBefore(n) < config.maxConcurrentSyncs ) =>
              LET top == TopApplicable(MapGet(targets, calls'[n].target))
              IN  Cardinality(top) >= 2 =>
                    \E i \in top :
                        /\ syncStrategies[i].id = calls'[n].strategy
                        /\ \A j \in top \ {i} :
                              RegisteredAt(syncStrategies[i].id)
                                  < RegisteredAt(syncStrategies[j].id)
      ]_vars

\* C11: when several applicable strategies share the highest priority, the
\* strategy a syncTarget resolves is the one of them whose id was registered
\* first; registering a strategy again under its id keeps the id's place.
TieGoesToFirstRegisteredId ==
    [][ \A n \in NewCalls :
          ( ActiveRegistered(calls'[n].target)
            /\ CountBefore(n) < config.maxConcurrentSyncs ) =>
              LET top == TopApplicable(MapGet(targets, calls'[n].target))
              IN  Cardinality(top) >= 2 =>
                    \E i \in top :
                        /\ syncStrategies[i].id = calls'[n].strategy
                        /\ \A j \in top \ {i} :
                              FirstRegisteredAt(syncStrategies[i].id)
                                  < FirstRegisteredAt(syncStrategies[j].id)
      ]_vars

\* C11 witness: "custom-a" was registered below the built-in strategy, then
\* "custom-b" (priority 5), which a sync of T1 resolved, then "custom-a"
\* again with priority 5, which the next sync of T1 resolved out of the tie
TieResolvedAfterReRegistration ==
    /\ Len(emitted) = 3
    /\ emitted[1].subject = "custom-a"
    /\ emitted[2].subject = "custom-b"
    /\ emitted[3].subject = "custom-a"
    /\ MapGet(syncStrategies, "custom-a").priority = 5
    /\ Len(calls) = 2
    /\ calls[1].target = "T1" /\ calls[1].strategy = "custom-b"
    /\ calls[2].target = "T1" /\ calls[2].strategy = "custom-a"

\* The invocations syncAllTargets has issued, and those of them that have
\* not settled.
IssuedByAll == Range(allOp.results) \cup Range(allOp.issued)

UnsettledOfAll == {c \in IssuedByAll : ~Settled(calls[c])}

Min(a, b) == IF a <= b THEN a ELSE b

IssuedUnsettledWithinCeiling ==
    /\ Cardinality(UnsettledOfAll) <= config.maxConcurrentSyncs
    /\ UnsettledOfAll \subseteq Range(allOp.issued)
    /\ Len(allOp.issued) <= config.maxConcurrentSyncs

\* C13 witness: as many syncs issued by syncAllTargets are unsettled as the
\* ceiling allows, and more than one
WholeChunkInFlight ==
    /\ allOp.pc = "await"
    /\ Cardinality(UnsettledOfAll) = config.maxConcurrentSyncs
    /\ Cardinality(UnsettledOfAll) >= 2

\* C14: syncAllTargets does not throw, and when it has returned it has
\* pushed one returned SyncResult per active target, in registration order.
SyncAllReportsEveryTarget ==
    /\ allOp.pc # "thrown"
    /\ allOp.pc = "returned" =>
          /\ [i \in 1..Len(allOp.results) |-> calls[allOp.results[i]].target]
               = Ids(ActiveTargets)
          /\ \A c \in Range(allOp.results) : calls[c].pc = "returned"

\* C15: no cron task calls syncTarget for an id that has been removed and
\* not been added again: no invocation made by the scheduler finds its
\* target missing.
NoFireAfterRemoval ==
    \A c \in 1..Len(calls) :
        ~(calls[c].pc = "thrown" /\ calls[c].error = "Target not found")

\* C16: an addTarget call for a target whose cron expression cannot be
\* parsed has thrown, and no cron task has been created that would meet the
\* expression only when it fires.
UnparsableCronFailsAtAdd ==
    /\ \A i \in 1..Len(addCalls) :
          addCalls[i].cron = "invalid" => addCalls[i].threw
    /\ Len(cronTasks) =
          1 + Cardinality({i \in 1..Len(addCalls) : addCalls[i].cron = "valid"})

\* C16 witness: addTarget has thrown for the unparsable expression and has
\* gone through for a target with a valid one
AddThrewOnBadCron ==
    /\ \E i \in 1..Len(addCalls) : addCalls[i].cron = "invalid" /\ addCalls[i].threw
    /\ \E i \in 1..Len(addCalls) : addCalls[i].cron = "valid" /\ ~addCalls[i].threw

\* The marker triggerSacredTimeSync was called for and found active, and the
\* invocations it has made in the order it made them.
SacredZone == CHOOSE z \in Range(sacredTimeZones) : z.name = sacredOp.zone

SacredCalls ==
    IF sacredOp.cur = 0 \/ sacredOp.cur \in Range(sacredOp.results)
    THEN sacredOp.results
    ELSE Append(sacredOp.results, sacredOp.cur)

CallTargets(cs) == [i \in 1..Len(cs) |-> calls[cs[i]].target]

\* C17: the targets triggerSacredTimeSync has synced and those it has still
\* to sync are, in this order, its selected targets in registration order;
\* every sync but the one made last has settled before the next was started,
\* and the list it returns holds the results in that order.
SacredOneAtATime ==
    sacredOp.zone # "" =>
        /\ CallTargets(SacredCalls) \o sacredOp.todo = Ids(RelevantTargets(SacredZone))
        /\ \A i \in 1..Len(SacredCalls) :
              i < Len(SacredCalls) => calls[SacredCalls[i]].pc = "returned"
        /\ \A c \in Range(sacredOp.results) : calls[c].pc = "returned"
        /\ sacredOp.pc = "returned" =>
              CallTargets(sacredOp.results) = Ids(RelevantTargets(SacredZone))

\* C17 witness: two targets were synced for the marker, the first of them
\* with a failed result, and the list of both results has been returned
SacredReturnedTwo ==
    /\ sacredOp.pc = "returned"
    /\ Len(sacredOp.results) = 2
    /\ ~calls[sacredOp.results[1]].result.success
    /\ calls[sacredOp.results[1]].execs >= 1

\* The selection as C18 words it: a condition that references the marker's
\* id or type, or no condition (absent or an empty list) and a marker
\* classified as cosmic (by its type or its tags) or custom.
SelectedAsStated(target, zone) ==
    \/ \E i \in 1..Len(target.conditions) :
          \/ Includes(target.conditions[i], zone.id)
          \/ Includes(target.conditions[i], zone.type)
    \/ /\ target.conditions = <<>>
       /\ \/ StartsWith(zone.type, sCosmic)
          \/ "cosmic" \in zone.tags
          \/ zone.type = sCustom

\* C18: for an active marker the targets triggerSacredTimeSync syncs are
\* exactly the active targets selected as stated, and for an inactive marker
\* it syncs none.
SacredSelectionAsStated ==
    /\ sacredOp.zone # "" =>
          Range(CallTargets(SacredCalls)) \cup Range(sacredOp.todo)
            = {targets[i].id : i \in {j \in 1..Len(targets) :
                   targets[j].active /\ SelectedAsStated(targets[j], SacredZone)}}
    /\ sacredOp.zone = "" => SacredCalls = <<>>

\* The priority of an event as the data model gives it: the event's own, or
\* the default for an event that carries none.
EventPriority(event) ==
    IF event.hasPriority THEN event.priority ELSE DefaultPriority

\* The three conditions of C19 under the broadcaster's configuration.
SuppressionStated(event) ==
    /\ broadcasterConfig.hasFilters
    /\ \/ EventPriority(event) < broadcasterConfig.minPriority
       \/ /\ Len(broadcasterConfig.requiredTags) > 0
          /\ \A i \in 1..Len(broadcasterConfig.requiredTags) :
                broadcasterConfig.requiredTags[i] \notin event.tags
       \/ event.type \in broadcasterConfig.excludedTypes

\* C19: a broadcastSignal call has returned at the filter, with an empty
\* mapping and no channel invoked, exactly when one of the three stated
\* conditions holds for its event; a call that passed the filter and the
\* limit has invoked every available channel.
FilterDecisionAsStated ==
    \A b \in 1..Len(broadcasts) :
        /\ (broadcasts[b].left = "filter") <=> SuppressionStated(broadcasts[b].event)
        /\ broadcasts[b].left = "filter" =>
              /\ broadcasts[b].pc = "returned"
              /\ broadcasts[b].results = {}
              /\ broadcasts[b].invoked = <<>>
        /\ broadcasts[b].left \in {"", "end"} =>
              broadcasts[b].invoked = Ids(availableChannels(channels))

NewBroadcasts == (Len(broadcasts) + 1)..Len(broadcasts')

\* C20: a broadcastSignal call for a signal that passes the filter, made
\* while the in-flight count is at or above maxConcurrentBroadcasts, has
\* returned an empty mapping within the step of the call, has invoked no
\* channel and has left the in-flight set as it was; and an invocation that
\* has returned is never taken up again.
BroadcastLimitImmediate ==
    [][ /\ \A n \in NewBroadcasts :
              ( shouldBroadcastSignal(broadcasterConfig, broadcasts'[n].event)
                /\ Cardinality(activeBroadcasts) >= broadcasterConfig.maxConcurrentBroadcasts ) =>
                  /\ broadcasts'[n].pc = "returned"
                  /\ broadcasts'[n].results = {}
                  /\ broadcasts'[n].invoked = <<>>
                  /\ broadcasts'[n].pending = {}
                  /\ activeBroadcasts' = activeBroadcasts
        /\ \A b \in 1..Len(broadcasts) :
              broadcasts[b].pc = "returned" => broadcasts'[b] = broadcasts[b]
      ]_vars

\* C20 witness: a signal that passed the filter was dropped at a ceiling of
\* at least 1 while the broadcast holding the slot was still in flight, and
\* that broadcast has since completed
DroppedAtBroadcastCeiling ==
    \E b \in 1..Len(broadcasts) :
        /\ broadcasts[b].left = "limit"
        /\ broadcasts[b].results = {}
        /\ broadcasterConfig.maxConcurrentBroadcasts >= 1
        /\ \E a \in 1..(b - 1) :
              /\ broadcasts[a].left = "end"
              /\ Len(broadcasts[a].invoked) >= 2
        /\ activeBroadcasts = {}

\* The broadcastSignal invocations that passed the filter and the limit.
FannedOut == { b \in 1..Len(broadcasts) : broadcasts[b].left \in {"", "end"} }

\* The channel ids of a set of per-channel entries.
EntryIds(entries) == { e.id : e \in entries }

ChannelFailureIsolated ==
    \A b \in 1..Len(broadcasts) :
        /\ broadcasts[b].pc # "thrown"
        /\ b \in FannedOut =>
              LET call == broadcasts[b] IN
              /\ call.invoked = Ids(availableChannels(channels))
              /\ Cardinality(Range(call.invoked)) = Len(call.invoked)
              /\ call.pending \cup EntryIds(call.settled) = Range(call.invoked)
              /\ call.pending \cap EntryIds(call.settled) = {}
              /\ call.results =
                    { [id |-> e.id, success |-> (e.outcome = "true")] : e \in call.settled }
              /\ \A ch \in EntryIds(call.settled) :
                    Cardinality({ e \in call.results : e.id = ch }) = 1

\* C22 witness: the first channel invoked was rejected, and a later channel
\* of the same fan-out has the entry true of its own outcome
SiblingRecordedAfterRejection ==
    \E b \in FannedOut :
        /\ Len(broadcasts[b].invoked) >= 2
        /\ [id |-> broadcasts[b].invoked[1], outcome |-> "rejected"]
              \in broadcasts[b].settled
        /\ [id |-> broadcasts[b].invoked[1], success |-> FALSE]
              \in broadcasts[b].results
        /\ [id |-> broadcasts[b].invoked[2], success |-> TRUE]
              \in broadcasts[b].results
        /\ broadcasts[b].left = "end"

\* C23: the mapping a completed fan-out returns has exactly one boolean entry
\* for each channel that was available and none for any other channel, and
\* the signal's status is "delivered" when every entry is true and "failed"
\* otherwise.
MappingAndStatusAggregate ==
    \A b \in 1..Len(broadcasts) :
        broadcasts[b].left = "end" =>
            LET call      == broadcasts[b]
                available == { ch \in Range(Ids(channels)) :
                                 MapGet(channels, ch).available }
            IN
            /\ EntryIds(call.results) = available
            /\ Cardinality(call.results) = Cardinality(available)
            /\ \A e \in call.results : e.success \in BOOLEAN
            /\ call.status \in {"delivered", "failed"}
            /\ call.status = "delivered" <=> \A e \in call.results : e.success

\* C23 witness: three channels returned true, true and false; the status is
\* "failed" and the mapping has 3 entries
TwoTrueOneFalseFailed ==
    \E b \in 1..Len(broadcasts) :
        /\ broadcasts[b].left = "end"
        /\ Cardinality(broadcasts[b].settled) = 3
        /\ Cardinality({ e \in broadcasts[b].settled : e.outcome = "true" }) = 2
        /\ Cardinality({ e \in broadcasts[b].settled : e.outcome = "false" }) = 1
        /\ broadcasts[b].status = "failed"
        /\ Cardinality(broadcasts[b].results) = 3

\* C24: a fan-out returns, and sets the status, only when no invoked channel
\* is still pending; the mapping and the status it returns are determined by
\* the channels' outcomes alone, whichever order they settled in; and the
\* record of an invocation that has returned never changes again.
AggregateAfterAllSettled ==
    [][ \A b \in 1..Len(broadcasts') :
          /\ broadcasts'[b].left = "end" =>
                LET call == broadcasts'[b] IN
                /\ call.pending = {}
                /\ EntryIds(call.settled) = Range(call.invoked)
                /\ call.results =
                      { [id |-> e.id, success |-> (e.outcome = "true")] : e \in call.settled }
                /\ call.status =
                      IF \E e \in call.settled : e.outcome # "true"
                      THEN "failed" ELSE "delivered"
          /\ b <= Len(broadcasts) /\ broadcasts[b].pc = "returned" =>
                broadcasts'[b] = broadcasts[b]
          /\ b <= Len(broadcasts) /\ broadcasts[b].pc = "await" =>
                broadcasts'[b].status \in
                    IF broadcasts'[b].pc = "await" THEN {"pending"}
                    ELSE {"delivered", "failed"}
      ]_vars

\* C24 witness: two fan-outs whose channels ended the same way, one of them
\* rejected, have returned the same mapping and the same status
SameOutcomesSameAggregate ==
    /\ Len(broadcasts) = 2
    /\ broadcasts[1].left = "end"
    /\ broadcasts[2].left = "end"
    /\ broadcasts[1].settled = broadcasts[2].settled
    /\ \E e \in broadcasts[1].settled : e.outcome = "rejected"
    /\ \E e \in broadcasts[1].settled : e.outcome = "true"
    /\ broadcasts[1].results = broadcasts[2].results
    /\ broadcasts[1].status = broadcasts[2].status

\* C25: every syncTarget invocation that has executed a strategy and has
\* returned a SyncResult has emitted 'sync-completed' exactly once, with the
\* result it returned, whether the result comes from the first attempt or
\* from the retry path.
EveryReturnedSyncNotified ==
    \A c \in 1..Len(calls) :
        calls[c].pc = "returned" /\ calls[c].execs >= 1 =>
            calls[c].notified = <<calls[c].result>>

\* C26: no step of syncTarget, of a scheduled fire, of syncAllTargets or of
\* triggerSacredTimeSync, nor the settling of any strategy execution, changes
\* the target registry: the targets, their order and every field of every
\* target stay as they were.
SyncLeavesRegistryUnchanged == [][targets' = targets]_vars

\* C26 witness: invocations issued by syncAllTargets and by
\* triggerSacredTimeSync have settled, one invocation has failed by
\* throwing, and every target of the registry is as it was registered
RegistryIntactAfterSyncs ==
    /\ allOp.pc # "idle"
    /\ sacredOp.pc # "idle"
    /\ \E c \in 1..Len(calls) : calls[c].pc = "thrown" /\ calls[c].execs >= 1
    /\ \E c \in 1..Len(calls) : calls[c].pc = "returned" /\ calls[c].execs >= 1
    /\ targets \in Registries

\* The notifications a step adds to the engine's emitted events.
NewEmitted == { emitted'[i] : i \in (Len(emitted) + 1)..Len(emitted') }

\* C27: a registerSyncStrategy call for an id that is already registered
\* leaves a strategy stored under that id and emits, besides what a
\* first-time registration emits, a notice of the overwrite.
OverwriteEmitsWarning ==
    [][ \A e \in NewEmitted :
          ( e.type = "strategy-registered" /\ MapHas(syncStrategies, e.subject) ) =>
              /\ MapHas(syncStrategies', e.subject)
              /\ \E w \in NewEmitted : w.type # "strategy-registered"
      ]_vars

\* C28: a broadcastSignal call for an event that carries no priority, under
\* filters whose tag and type conditions do not suppress it, has returned at
\* the filter exactly when minPriority is above the default priority.
NoPriorityCountsAsDefault ==
    \A b \in 1..Len(broadcasts) :
        LET event == broadcasts[b].event IN
        ( /\ ~event.hasPriority
          /\ broadcasterConfig.hasFilters
          /\ Len(broadcasterConfig.requiredTags) = 0
          /\ event.type \notin broadcasterConfig.excludedTypes ) =>
            ( broadcasts[b].left = "filter"
                <=> broadcasterConfig.minPriority > DefaultPriority )

\* C29: every emitEvent call has called each callback that was registered
\* when it was made once per registration, in registration order, whether or
\* not an earlier callback threw; the exception of every callback that threw
\* has been logged; and emitEvent itself has not thrown.
EmitReachesEveryCallback ==
    \A e \in 1..Len(emitCalls) :
        LET run == emitCalls[e] IN
        /\ run.called = Ids(run.registered)
        /\ run.logged = Ids(SelectSeq(run.registered, LAMBDA cb : cb.throws))
        /\ ~run.threw

\* C29 witness: an emitEvent call whose first callback threw has logged the
\* exception and has called the two callbacks registered behind it
LaterCallbacksCalledAfterThrow ==
    \E e \in 1..Len(emitCalls) :
        /\ Len(emitCalls[e].registered) = 3
        /\ emitCalls[e].registered[1].throws
        /\ ~emitCalls[e].registered[3].throws
        /\ Len(emitCalls[e].called) = 3
        /\ emitCalls[e].logged[1] = emitCalls[e].registered[1].id

\* The syncTarget invocations that are waiting for a strategy execution to
\* settle, on the first attempt or on a retry attempt.
AwaitingExecute == { c \in 1..Len(calls) : calls[c].pc \in {"race", "retry"} }

\* C30: every strategy execution a syncTarget invocation waits for is
\* bounded by the per-call timeout: while the invocation waits, on the first
\* attempt or on a retry attempt, the firing of its timeout timer can end the
\* wait, so an execution that never settles cannot keep the invocation and
\* its token for ever.
EveryAttemptBoundedByTimeout ==
    \A c \in AwaitingExecute :
        EventLoopFree => ENABLED RaceSettles(c, "timeout")

\* C31: the in-flight count is within the ceiling that is configured at the
\* time in the state every step leads to, the steps of updateConfig
\* included: also right after updateConfig has lowered maxConcurrentSyncs
\* while syncs are in flight.
CeilingHoldsAcrossUpdateConfig ==
    [][ Cardinality(activeSyncs') <= config'.maxConcurrentSyncs ]_vars

\* C32: syncAllTargets always comes to an end: whatever the targets and the
\* ceiling, 0 included, it is never caught in a loop that it cannot leave.
SyncAllTargetsNeverDiverges == allOp.pc # "diverged"

\* The cron tasks that are running for a target id.
LiveTriggers(targetId) ==
    { t \in 1..Len(cronTasks) :
        cronTasks[t].target = targetId /\ cronTasks[t].running }

\* C34: every target id has at most one running cron task, and it has one
\* exactly when the id is registered with a definition that carries a
\* (parsable) cron schedule; so no task runs for an id that is not registered
\* and none is left over from an earlier addTarget of the id.
OneLiveTriggerPerScheduledTarget ==
    \A targetId \in {"T1", "T4", "T5"} :
        /\ Cardinality(LiveTriggers(targetId)) <= 1
        /\ Cardinality(LiveTriggers(targetId)) = 1
              <=> ( /\ MapHas(targets, targetId)
                    /\ MapGet(targets, targetId).cron = "valid" )

\* C35: an addTarget call that has thrown has left the registry, the cron
\* tasks and the emitted notifications as they were before the call.
FailedAddChangesNothing ==
    [][ ( Len(addCalls') = Len(addCalls) + 1 /\ addCalls'[Len(addCalls')].threw ) =>
            /\ targets' = targets
            /\ cronJobs' = cronJobs
            /\ cronTasks' = cronTasks
            /\ emitted' = emitted
      ]_vars

\* C36: a broadcastSignal call that returns at the filter or at the limit
\* leaves the set of in-flight broadcasts as it was and emits no
\* 'broadcast-completed'; the signal's status is "pending" when the call
\* returns and stays so, and no 'broadcast-completed' is ever emitted for it.
DroppedSignalUntouched ==
    [][ /\ \A n \in NewBroadcasts :
              broadcasts'[n].left \in {"filter", "limit"} =>
                  /\ activeBroadcasts' = activeBroadcasts
                  /\ \A i \in (Len(pulseEmitted) + 1)..Len(pulseEmitted') :
                        pulseEmitted'[i].type # "broadcast-completed"
        /\ \A b \in 1..Len(broadcasts') :
              broadcasts'[b].left \in {"filter", "limit"} =>
                  /\ broadcasts'[b].status = "pending"
                  /\ \A i \in 1..Len(pulseEmitted') :
                        ~( pulseEmitted'[i].type = "broadcast-completed"
                           /\ pulseEmitted'[i].subject = b )
      ]_vars

\* C36 witness: while one broadcast is in flight a signal has been suppressed
\* by the filter; its status is "pending" and the first broadcast still
\* holds the only slot taken
SuppressedWhileInFlight ==
    /\ Len(broadcasts) = 2
    /\ broadcasts[1].pc = "await"
    /\ broadcasts[2].left = "filter"
    /\ broadcasts[2].status = "pending"
    /\ activeBroadcasts = {1}

\* A syncTarget invocation that was refused at the concurrency limit.
LimitFailed(call) ==
    call.pc = "returned" /\ call.result.error = "Maximum concurrent syncs reached"

RunningImpliesInitialized == isRunning => isInitialized

\* C38 witness: the integration is running after a start whose hook
\* returned, although an earlier start was refused and a hook has thrown
RunningAfterRefusedStart ==
    /\ isRunning
    /\ \E i \in 1..Len(lifecycle) :
          lifecycle[i].op = "start" /\ lifecycle[i].pc = "thrown" /\ ~lifecycle[i].hooked
    /\ \E i \in 1..Len(lifecycle) :
          lifecycle[i].op = "start" /\ lifecycle[i].pc = "returned" /\ lifecycle[i].hooked

\* The calls of `op` that have invoked their hook, and those of them made
\* before the flag the method tests was written.
Hooked(op) == { i \in 1..Len(lifecycle) : lifecycle[i].op = op /\ lifecycle[i].hooked }

\* C39: setup is invoked by at most one initialize call at a time, and
\* onStart by at most one start call at a time: a call made while an earlier
\* call of the same method is still awaiting its hook does not invoke the
\* hook again.
HookNotInvokedByOverlappingCall ==
    \A op \in {"initialize", "start"} :
        Cardinality({ i \in Hooked(op) : lifecycle[i].pc = "await" }) <= 1

\* stop has completed, start has not been called since and no earlier
\* start is still in flight.
StoppedSinceLastStart ==
    /\ \E i \in 1..Len(lifecycle) :
          /\ lifecycle[i].op = "stop" /\ lifecycle[i].hooked /\ lifecycle[i].pc = "returned"
          /\ \A j \in (i + 1)..Len(lifecycle) : lifecycle[j].op # "start"
    /\ \A j \in 1..Len(lifecycle) : lifecycle[j].op = "start" => lifecycle[j].pc # "await"

\* C40: once stop of a PrimalGenesisIntegration has completed, no step
\* creates an EventSource until start is called again, also when a stream
\* error had set a reconnection timer before the stop.
NoStreamOpenedWhileStopped ==
    [][ StoppedSinceLastStart => Len(streams') = Len(streams) ]_vars

\* No sync and no broadcast is in flight in the orchestrator.
CoordinationQuiescent ==
    /\ Held(resonatorSyncs) = 0
    /\ pulseBroadcasts = 0

\* C33: after a single logged event the orchestrator eventually becomes
\* quiescent and stays so: from some point on no sync and no broadcast is
\* issued or in flight (the system event the 'sync-completed' handler logs
\* does not trigger syncAllTargets again without bound).
EventuallyQuiescent == <>[]CoordinationQuiescent

====
